---------------------------- MODULE Spec2Model ----------------------------
(***************************************************************************)
(* Fold-and-Batch FRI (winter-fri fork): the batched FRI prover/verifier,  *)
(* the folding prover, the Fold-and-Batch verifier and the proof           *)
(* containers, as state machines over a small prime field.                 *)
(***************************************************************************)
EXTENDS Integers, Sequences, FiniteSets, TLC

VARIABLES
    pc,      \* position of the run under the specification at hand
    args,    \* arguments of the helper function under test
    ret,     \* its result: [panic |-> BOOLEAN, value |-> ...]
    proof,   \* a FoldAndBatchProof value
    bytes,   \* the target of write_into / the source of read_from
    parsed,  \* the result of read_from
    sized,   \* the result of size()
    run      \* provers, proof systems' transcripts and the verifier of a run

pureVars == <<args, ret>>
serialVars == <<proof, bytes, parsed, sized>>
vars == <<pc, args, ret, proof, bytes, parsed, sized, run>>

(***************************************************************************)
(* Bounds of the model.                                                    *)
(***************************************************************************)
\* most evaluation vectors handed to combine_poly_evaluations
MaxPoly == 2
\* longest evaluation vector handed to combine_poly_evaluations
MaxLen == 2
\* longest position list handed to fold_positions / extract_evaluations
MaxPositions == 3
\* most workers (folding proofs) of a proof container
MaxWorkers == 2
\* most layers of a folding proof, most digests of a commitment vector
MaxLayers == 2

(***************************************************************************)
(* The field E.  The code is generic over FieldElement; the model uses the *)
(* prime field of 3 * 2^12 + 1 elements (two-adicity 12, generator 11).    *)
(***************************************************************************)
Modulus == 3 * 4096 + 1
GENERATOR == 11
ZERO == 0
ONE == 1

FAdd(a, b) == (a + b) % Modulus
FSub(a, b) == (a - b + Modulus) % Modulus
FMul(a, b) == (a * b) % Modulus

RECURSIVE FPow(_, _)
FPow(a, e) ==
    IF e = 0 THEN ONE
    ELSE LET h == FPow(a, e \div 2)
         IN  IF e % 2 = 0 THEN FMul(h, h) ELSE FMul(FMul(h, h), a)

FInv(a) == FPow(a, Modulus - 2)

(***************************************************************************)
(* Results of functions that may abort.                                    *)
(***************************************************************************)
Returned(v) == [panic |-> FALSE, value |-> v]
Panicked == [panic |-> TRUE, value |-> <<>>]

Range(s) == {s[i] : i \in 1..Len(s)}

(***************************************************************************)
(* fold_positions: every position modulo the folded domain size, without   *)
(* the values already recorded, in the order of first occurrence.          *)
(***************************************************************************)
RECURSIVE FoldPositionsFrom(_, _, _, _)
FoldPositionsFrom(positions, target_domain_size, t, result) ==
    IF t > Len(positions) THEN result
    ELSE LET position == positions[t] % target_domain_size
         IN  FoldPositionsFrom(positions, target_domain_size, t + 1,
                 IF position \in Range(result) THEN result
                 ELSE Append(result, position))

\* the ascending list of the elements of a finite set of numbers
RECURSIVE Ascending(_)
Ascending(S) ==
    IF S = {} THEN <<>>
    ELSE LET m == CHOOSE x \in S : \A y \in S : x <= y
         IN  <<m>> \o Ascending(S \ {m})

FoldPositionsSorted(positions, source_domain_size, folding_factor) ==
    Ascending({positions[t] % (source_domain_size \div folding_factor) :
                  t \in 1..Len(positions)})

fold_positions(positions, source_domain_size, folding_factor) ==
    FoldPositionsFrom(positions, source_domain_size \div folding_factor, 1, <<>>)

\* index (0-based) of the first occurrence of x in s; Len(s) when absent
RECURSIVE IndexOfFrom(_, _, _)
IndexOfFrom(s, x, t) ==
    IF t > Len(s) THEN Len(s)
    ELSE IF s[t] = x THEN t - 1 ELSE IndexOfFrom(s, x, t + 1)

IndexOf(s, x) == IndexOfFrom(s, x, 1)

(***************************************************************************)
(* combine_poly_evaluations: v_0 + a * v_1 + ... + a^l * v_l, entry by     *)
(* entry with a running multiplier.  Aborts on an empty collection and on  *)
(* a vector shorter than the first one (index out of bounds).              *)
(***************************************************************************)
RECURSIVE CombineEntry(_, _, _, _, _, _)
CombineEntry(evaluations, j, i, combined_entry, multiplier, challenge) ==
    IF i > Len(evaluations) THEN combined_entry
    ELSE CombineEntry(evaluations, j, i + 1,
             FAdd(combined_entry, FMul(multiplier, evaluations[i][j])),
             FMul(multiplier, challenge), challenge)

CombineEntryStartingAtChallenge(evaluations, j, challenge) ==
    CombineEntry(evaluations, j, 1, ZERO, challenge, challenge)

combined_entry_at(evaluations, j, challenge) ==
    CombineEntry(evaluations, j, 1, ZERO, ONE, challenge)

\* combine_poly_evaluations without its assertion: no vector gives the
\* empty vector
CombinePolyEvaluationsOfNone(evaluations, batched_fri_challenge) ==
    IF Len(evaluations) = 0 THEN Returned(<<>>)
    ELSE LET eval_vec_size == Len(evaluations[1])
         IN  IF \E i \in 1..Len(evaluations) : Len(evaluations[i]) < eval_vec_size
             THEN Panicked
             ELSE Returned([j \in 1..eval_vec_size |->
                      combined_entry_at(evaluations, j, batched_fri_challenge)])

combine_poly_evaluations(evaluations, batched_fri_challenge) ==
    IF Len(evaluations) = 0 THEN Panicked
    ELSE LET eval_vec_size == Len(evaluations[1])
         IN  IF \E i \in 1..Len(evaluations) : Len(evaluations[i]) < eval_vec_size
             THEN Panicked
             ELSE Returned([j \in 1..eval_vec_size |->
                      combined_entry_at(evaluations, j, batched_fri_challenge)])

(***************************************************************************)
(* extract_evaluations: from the opened rows (transposed form) the value   *)
(* of every polynomial at every query position.  Aborts when an index      *)
(* falls outside an opened vector.                                         *)
(***************************************************************************)
ExtractIndexOfRow(position, folded_positions, folded_domain_size, folding_factor) ==
    IndexOf(folded_positions, position % folded_domain_size) * folding_factor

extract_index(position, folded_positions, folded_domain_size, folding_factor) ==
    IndexOf(folded_positions, position % folded_domain_size) * folding_factor
        + (position \div folded_domain_size)

extract_evaluations(query_positions, queried_values, domain_size, folding_factor) ==
    LET folded_domain_size == domain_size \div folding_factor
        folded_positions == fold_positions(query_positions, domain_size, folding_factor)
        indices == [t \in 1..Len(query_positions) |->
                       extract_index(query_positions[t], folded_positions,
                                     folded_domain_size, folding_factor)]
    IN  IF \E i \in 1..Len(queried_values) : \E t \in 1..Len(indices) :
               indices[t] >= Len(queried_values[i])
        THEN Panicked
        ELSE Returned([i \in 1..Len(queried_values) |->
                 [t \in 1..Len(indices) |-> queried_values[i][indices[t] + 1]]])


(***************************************************************************)
(* Byte strings: sequences of 0..255.  ByteWriter / ByteReader.            *)
(***************************************************************************)
U8Range == 256
U16Range == 256 * 256
U24Range == 256 * 256 * 256
\* a count too large for any source of the model (a u32 of 2^24 or more)
TooMany == 64 * U24Range

write_u8(n) == <<n % U8Range>>
write_u16(n) == <<n % U8Range, (n \div U8Range) % U8Range>>
write_u32(n) ==
    <<n % U8Range, (n \div U8Range) % U8Range,
      (n \div U16Range) % U8Range, (n \div U24Range) % U8Range>>

\* a read: ok, the value read and the position (1-based) after it
ReadOk(v, pos) == [ok |-> TRUE, val |-> v, pos |-> pos]
ReadErr == [ok |-> FALSE, val |-> <<>>, pos |-> 0]

\* a failed read leaves position 0, and nothing can be read from there: an
\* error ends the whole read (the ? of the source)
has_bytes(src, pos, n) == pos >= 1 /\ pos + n - 1 <= Len(src)

read_u8(src, pos) ==
    IF has_bytes(src, pos, 1) THEN ReadOk(src[pos], pos + 1) ELSE ReadErr
read_u16(src, pos) ==
    IF has_bytes(src, pos, 2)
    THEN ReadOk(src[pos] + U8Range * src[pos + 1], pos + 2) ELSE ReadErr
read_u32(src, pos) ==
    IF has_bytes(src, pos, 4)
    THEN ReadOk(IF src[pos + 3] > 0 THEN TooMany
                ELSE src[pos] + U8Range * src[pos + 1] + U16Range * src[pos + 2],
                pos + 4)
    ELSE ReadErr
read_vec(src, pos, n) ==
    IF has_bytes(src, pos, n)
    THEN ReadOk(SubSeq(src, pos, pos + n - 1), pos + n) ELSE ReadErr

\* the fields read so far (st) with the next read (r) appended
Field(st, r) ==
    IF st.ok /\ r.ok THEN ReadOk(Append(st.val, r.val), r.pos) ELSE ReadErr
NoFields(pos) == ReadOk(<<>>, pos)

\* a byte vector behind the length read as n
read_vec_counted(src, n) ==
    IF n.ok THEN read_vec(src, n.pos, n.val) ELSE ReadErr
field_u8(src, st) == Field(st, read_u8(src, st.pos))
field_vec_u16(src, st) == Field(st, read_vec_counted(src, read_u16(src, st.pos)))
field_vec_u32(src, st) == Field(st, read_vec_counted(src, read_u32(src, st.pos)))

(***************************************************************************)
(* Digests (two bytes in the model) and field elements on the wire.        *)
(***************************************************************************)
DigestBytes == 2
ElementBytes == 2

write_digest(d) == write_u16(d)
read_digest(src, pos) == read_u16(src, pos)

RECURSIVE write_digests(_)
write_digests(ds) ==
    IF Len(ds) = 0 THEN <<>> ELSE write_digest(Head(ds)) \o write_digests(Tail(ds))

\* read_many: n digests appended to the ones in st
RECURSIVE read_digests(_, _, _)
read_digests(src, n, st) ==
    IF n = 0 \/ ~st.ok THEN st
    ELSE read_digests(src, n - 1, Field(st, read_digest(src, st.pos)))
read_digests_counted(src, n) ==
    IF n.ok THEN read_digests(src, n.val, NoFields(n.pos)) ELSE ReadErr

write_element(e) == write_u16(e)

RECURSIVE write_elements(_)
write_elements(es) ==
    IF Len(es) = 0 THEN <<>> ELSE write_element(Head(es)) \o write_elements(Tail(es))

\* read_many of field elements: fails on a value that is no field element
element_of(e) == IF e.ok /\ e.val < Modulus THEN e ELSE ReadErr
RECURSIVE read_elements(_, _, _)
read_elements(src, n, st) ==
    IF n = 0 \/ ~st.ok THEN st
    ELSE read_elements(src, n - 1, Field(st, element_of(read_u16(src, st.pos))))

(***************************************************************************)
(* FriProofLayer and FriProof: values and opening proof as byte vectors,   *)
(* each behind a u32 length; FriProof as u8 num_layers, layers, u8         *)
(* num_partitions, u32 remainder length, remainder bytes.                  *)
(***************************************************************************)
FriProofLayer(values, paths) == [values |-> values, paths |-> paths]

layer_write_into(layer) ==
    write_u32(Len(layer.values)) \o layer.values
        \o write_u32(Len(layer.paths)) \o layer.paths

layer_size(layer) == 4 + Len(layer.values) + 4 + Len(layer.paths)

layer_of_fields(st) ==
    IF st.ok THEN ReadOk(FriProofLayer(st.val[1], st.val[2]), st.pos) ELSE ReadErr
layer_read_from(src, pos) ==
    layer_of_fields(field_vec_u32(src, field_vec_u32(src, NoFields(pos))))

RECURSIVE layers_write_into(_)
layers_write_into(layers) ==
    IF Len(layers) = 0 THEN <<>>
    ELSE layer_write_into(Head(layers)) \o layers_write_into(Tail(layers))

RECURSIVE layers_size(_)
layers_size(layers) ==
    IF Len(layers) = 0 THEN 0 ELSE layer_size(Head(layers)) + layers_size(Tail(layers))

RECURSIVE layers_read_from(_, _, _)
layers_read_from(src, n, st) ==
    IF n = 0 \/ ~st.ok THEN st
    ELSE layers_read_from(src, n - 1, Field(st, layer_read_from(src, st.pos)))
layers_read_counted(src, n) ==
    IF n.ok THEN layers_read_from(src, n.val, NoFields(n.pos)) ELSE ReadErr

FriProof(layers, remainder, num_partitions) ==
    [layers |-> layers, remainder |-> remainder, num_partitions |-> num_partitions]

fri_proof_write_into(p) ==
    write_u8(Len(p.layers)) \o layers_write_into(p.layers)
        \o write_u8(p.num_partitions)
        \o write_u32(Len(p.remainder)) \o p.remainder

fri_proof_size(p) == 1 + layers_size(p.layers) + 1 + 4 + Len(p.remainder)

field_layers(src, st) == Field(st, layers_read_counted(src, read_u8(src, st.pos)))
fri_proof_of_fields(st) ==
    IF st.ok THEN ReadOk(FriProof(st.val[1], st.val[3], st.val[2]), st.pos)
    ELSE ReadErr
\* num_layers and the layers, num_partitions, the remainder
fri_proof_read_from(src, pos) ==
    fri_proof_of_fields(
        field_vec_u32(src, field_u8(src, field_layers(src, NoFields(pos)))))

(***************************************************************************)
(* FoldingProof.                                                           *)
(***************************************************************************)
FoldingProof(layers) == [folding_proof |-> layers]

\* FoldingProof::new aborts on an empty vector
folding_proof_new(layers) ==
    IF Len(layers) = 0 THEN Panicked ELSE Returned(FoldingProof(layers))

batching_proof(fp) == fp.folding_proof[Len(fp.folding_proof)]

folding_proof_size(fp) == 1 + layers_size(fp.folding_proof)

folding_proof_write_into(fp) ==
    write_u8(Len(fp.folding_proof)) \o layers_write_into(fp.folding_proof)

\* a layer count of 0 is an InvalidValue error
nonzero(n) == IF n.ok /\ n.val # 0 THEN n ELSE ReadErr
folding_proof_of_layers(ls) ==
    IF ls.ok THEN ReadOk(FoldingProof(ls.val), ls.pos) ELSE ReadErr
\* the layers read whatever their count
FoldingProofReadFromAnyCount(src, pos) ==
    folding_proof_of_layers(layers_read_counted(src, read_u8(src, pos)))
folding_proof_read_from(src, pos) ==
    folding_proof_of_layers(layers_read_counted(src, nonzero(read_u8(src, pos))))

RECURSIVE folding_proofs_write_into(_)
folding_proofs_write_into(fps) ==
    IF Len(fps) = 0 THEN <<>>
    ELSE folding_proof_write_into(Head(fps)) \o folding_proofs_write_into(Tail(fps))

RECURSIVE folding_proofs_size(_)
folding_proofs_size(fps) ==
    IF Len(fps) = 0 THEN 0
    ELSE folding_proof_size(Head(fps)) + folding_proofs_size(Tail(fps))

RECURSIVE folding_proofs_read_from(_, _, _)
folding_proofs_read_from(src, n, st) ==
    IF n = 0 \/ ~st.ok THEN st
    ELSE folding_proofs_read_from(src, n - 1,
                                  Field(st, folding_proof_read_from(src, st.pos)))
folding_proofs_read_counted(src, n) ==
    IF n.ok THEN folding_proofs_read_from(src, n.val, NoFields(n.pos)) ELSE ReadErr

(***************************************************************************)
(* FoldAndBatchProof: the container, its size(), write_into and read_from. *)
(***************************************************************************)
FoldAndBatchProofOf(fps, fri, wev, mev, wlc, mlc) ==
    [folding_proofs |-> fps, fri_proof |-> fri,
     worker_evaluations |-> wev, master_evaluations |-> mev,
     worker_layer_commitments |-> wlc, master_layer_commitments |-> mlc]

NoProof == FoldAndBatchProofOf(<<>>, FriProof(<<>>, <<>>, 0), <<>>, <<>>, <<>>, <<>>)
NotRead == [ok |-> FALSE, val |-> NoProof, pos |-> 0]
NotSized == [panic |-> FALSE, value |-> 0]

\* FoldAndBatchProof::new: evaluations become bytes; aborts when the numbers
\* of folding proofs and of layer commitment vectors differ
fold_and_batch_proof_new(fps, fri, worker_evals, master_evals, wlc, mlc) ==
    IF Len(fps) # Len(wlc) THEN Panicked
    ELSE Returned(FoldAndBatchProofOf(fps, fri,
             [i \in 1..Len(worker_evals) |-> write_elements(worker_evals[i])],
             write_elements(master_evals), wlc, mlc))

RECURSIVE worker_evaluations_size(_)
worker_evaluations_size(wev) ==
    IF Len(wev) = 0 THEN 0
    ELSE Len(Head(wev)) + 2 + worker_evaluations_size(Tail(wev))

\* the bytes size() counts for the length of one commitment vector
CommitmentVecLenBytes == 2

RECURSIVE worker_layer_commitments_size(_)
worker_layer_commitments_size(wlc) ==
    IF Len(wlc) = 0 THEN 0
    ELSE DigestBytes * Len(Head(wlc)) + CommitmentVecLenBytes
             + worker_layer_commitments_size(Tail(wlc))

fold_and_batch_proof_size(P) ==
    IF \E i \in 1..Len(P.worker_layer_commitments) :
           Len(P.worker_layer_commitments[i]) = 0
    THEN Panicked
    ELSE IF Len(P.master_layer_commitments) = 0 THEN Panicked
    ELSE Returned(
          (4 + folding_proofs_size(P.folding_proofs))
        + fri_proof_size(P.fri_proof)
        + (4 + worker_evaluations_size(P.worker_evaluations))
        + (Len(P.master_evaluations) + 2)
        + (4 + worker_layer_commitments_size(P.worker_layer_commitments))
        + (Len(P.master_layer_commitments) * DigestBytes + CommitmentVecLenBytes))

RECURSIVE worker_evaluations_write_into(_)
worker_evaluations_write_into(wev) ==
    IF Len(wev) = 0 THEN <<>>
    ELSE write_u16(Len(Head(wev))) \o Head(wev)
             \o worker_evaluations_write_into(Tail(wev))

RECURSIVE worker_layer_commitments_write_into(_)
worker_layer_commitments_write_into(wlc) ==
    IF Len(wlc) = 0 THEN <<>>
    ELSE write_u8(Len(Head(wlc))) \o write_digests(Head(wlc))
             \o worker_layer_commitments_write_into(Tail(wlc))

\* the master evaluations emitted before the worker evaluations
WriteIntoMasterEvaluationsFirst(P) ==
    write_u32(Len(P.folding_proofs)) \o folding_proofs_write_into(P.folding_proofs)
        \o fri_proof_write_into(P.fri_proof)
        \o write_u16(Len(P.master_evaluations)) \o P.master_evaluations
        \o write_u32(Len(P.worker_evaluations))
        \o worker_evaluations_write_into(P.worker_evaluations)
        \o write_u32(Len(P.worker_layer_commitments))
        \o worker_layer_commitments_write_into(P.worker_layer_commitments)
        \o write_u8(Len(P.master_layer_commitments))
        \o write_digests(P.master_layer_commitments)

fold_and_batch_proof_write_into(P) ==
    write_u32(Len(P.folding_proofs)) \o folding_proofs_write_into(P.folding_proofs)
        \o fri_proof_write_into(P.fri_proof)
        \o write_u32(Len(P.worker_evaluations))
        \o worker_evaluations_write_into(P.worker_evaluations)
        \o write_u16(Len(P.master_evaluations)) \o P.master_evaluations
        \o write_u32(Len(P.worker_layer_commitments))
        \o worker_layer_commitments_write_into(P.worker_layer_commitments)
        \o write_u8(Len(P.master_layer_commitments))
        \o write_digests(P.master_layer_commitments)

RECURSIVE worker_evaluations_read_from(_, _, _)
worker_evaluations_read_from(src, n, st) ==
    IF n = 0 \/ ~st.ok THEN st
    ELSE worker_evaluations_read_from(src, n - 1, field_vec_u16(src, st))
worker_evaluations_read_counted(src, n) ==
    IF n.ok THEN worker_evaluations_read_from(src, n.val, NoFields(n.pos))
    ELSE ReadErr

RECURSIVE worker_layer_commitments_read_from(_, _, _)
worker_layer_commitments_read_from(src, n, st) ==
    IF n = 0 \/ ~st.ok THEN st
    ELSE worker_layer_commitments_read_from(src, n - 1,
             Field(st, read_digests_counted(src, read_u8(src, st.pos))))
worker_layer_commitments_read_counted(src, n) ==
    IF n.ok THEN worker_layer_commitments_read_from(src, n.val, NoFields(n.pos))
    ELSE ReadErr

field_folding_proofs(src, st) ==
    Field(st, folding_proofs_read_counted(src, read_u32(src, st.pos)))
field_fri_proof(src, st) == Field(st, fri_proof_read_from(src, st.pos))
field_worker_evaluations(src, st) ==
    Field(st, worker_evaluations_read_counted(src, read_u32(src, st.pos)))
field_worker_layer_commitments(src, st) ==
    Field(st, worker_layer_commitments_read_counted(src, read_u32(src, st.pos)))
field_master_layer_commitments(src, st) ==
    Field(st, read_digests_counted(src, read_u8(src, st.pos)))

proof_of_fields(st) ==
    IF st.ok
    THEN ReadOk(FoldAndBatchProofOf(st.val[1], st.val[2], st.val[3], st.val[4],
                                    st.val[5], st.val[6]), st.pos)
    ELSE ReadErr

\* the fields in the order write_into emits them; no count is compared with
\* another
fold_and_batch_proof_read_from(src, pos) ==
    proof_of_fields(
        field_master_layer_commitments(src,
        field_worker_layer_commitments(src,
        field_vec_u16(src,
        field_worker_evaluations(src,
        field_fri_proof(src,
        field_folding_proofs(src, NoFields(pos))))))))

(***************************************************************************)
(* The transposed layout of an evaluation vector v of length D with N      *)
(* columns: row k is (v[k], v[k + D/N], ..., v[k + (N-1)D/N]).             *)
(***************************************************************************)
transposed_row(v, k, N) ==
    [j \in 1..N |-> v[k + (j - 1) * (Len(v) \div N) + 1]]

RECURSIVE Flatten(_)
Flatten(rows) ==
    IF Len(rows) = 0 THEN <<>> ELSE Head(rows) \o Flatten(Tail(rows))

\* the rows of v at the given leaf positions, concatenated in that order
opened_rows(v, leaf_positions, N) ==
    Flatten([t \in 1..Len(leaf_positions) |-> transposed_row(v, leaf_positions[t], N)])

(***************************************************************************)
(* Hasher: digests are the numbers below HashModulus (two bytes).          *)
(***************************************************************************)
HashModulus == 32749

RECURSIVE HashFrom(_, _, _)
HashFrom(xs, t, h) ==
    IF t > Len(xs) THEN (h * h + 31 * h + Len(xs)) % HashModulus
    ELSE HashFrom(xs, t + 1, (h * h + 31 * h + xs[t] + 1) % HashModulus)

Hash(xs) == HashFrom(xs, 1, 7)
hash_elements(row) == Hash(row)
merge(a, b) == Hash(<<a, b>>)
merge_with_int(seed, n) == Hash(<<seed, n, 0>>)

(***************************************************************************)
(* RandomCoin: a seed and a counter.  The log records every reseed and     *)
(* every value drawn, in order (the Fiat-Shamir transcript).               *)
(***************************************************************************)
Event(op, v) == [op |-> op, v |-> v]

RandomCoin_new == [seed |-> Hash(<<>>), counter |-> 0, log |-> <<>>]

reseed(coin, d) ==
    [seed |-> merge(coin.seed, d), counter |-> 0,
     log |-> Append(coin.log, Event("reseed", d))]

\* the element draw() returns, and the coin after the draw
draw_value(coin) == Hash(<<coin.seed, coin.counter + 1>>) % Modulus
after_draw(coin) ==
    [seed |-> coin.seed, counter |-> coin.counter + 1,
     log |-> Append(coin.log, Event("draw", draw_value(coin)))]

\* the integers draw_integers returns (duplicates are kept), and the coin
\* after the draw
drawn_integers(coin, num_values, domain_size, nonce) ==
    [i \in 1..num_values |->
        Hash(<<merge_with_int(coin.seed, nonce), i>>) % domain_size]
after_draw_integers(coin, num_values, domain_size, nonce) ==
    [seed |-> merge_with_int(coin.seed, nonce), counter |-> num_values,
     log |-> coin.log \o
             [i \in 1..num_values |->
                 Event("draw_integer",
                       drawn_integers(coin, num_values, domain_size, nonce)[i])]]

\* sort_unstable followed by dedup
sort_dedup(positions) == Ascending(Range(positions))

(***************************************************************************)
(* Evaluation domains and the degree-respecting projection.                *)
(***************************************************************************)
RECURSIVE next_power_of_two_from(_, _)
next_power_of_two_from(n, p) ==
    IF p >= n THEN p ELSE next_power_of_two_from(n, 2 * p)
next_power_of_two(n) == next_power_of_two_from(n, 1)

is_power_of_two(n) == n >= 1 /\ next_power_of_two(n) = n

root_of_unity(domain_size) == FPow(GENERATOR, (Modulus - 1) \div domain_size)

\* the point of index j (from 0) of the coset offset * <w>, w of order
\* domain_size
domain_point(offset, domain_size, j) ==
    FMul(offset, FPow(root_of_unity(domain_size), j))

RECURSIVE eval_poly_from(_, _, _, _)
eval_poly_from(coefficients, x, t, acc) ==
    IF t = 0 THEN acc
    ELSE eval_poly_from(coefficients, x, t - 1, FAdd(FMul(acc, x), coefficients[t]))
eval_poly(coefficients, x) == eval_poly_from(coefficients, x, Len(coefficients), ZERO)

evaluate_poly(coefficients, offset, domain_size) ==
    [j \in 1..domain_size |->
        eval_poly(coefficients, domain_point(offset, domain_size, j - 1))]

\* product of (x - xs[m]) over the m other than j
RECURSIVE OthersProduct(_, _, _, _, _)
OthersProduct(xs, j, x, m, acc) ==
    IF m > Len(xs) \/ acc = ZERO THEN acc
    ELSE OthersProduct(xs, j, x, m + 1,
                       IF m = j THEN acc ELSE FMul(acc, FSub(x, xs[m])))

RECURSIVE InterpolateFrom(_, _, _, _, _)
InterpolateFrom(xs, ys, x, j, acc) ==
    IF j > Len(xs) THEN acc
    ELSE InterpolateFrom(xs, ys, x, j + 1,
             FAdd(acc, FMul(ys[j], FMul(OthersProduct(xs, j, x, 1, ONE),
                                        FInv(OthersProduct(xs, j, xs[j], 1, ONE))))))

\* the value at x of the polynomial of degree < Len(xs) through (xs, ys)
interpolate_at(xs, ys, x) == InterpolateFrom(xs, ys, x, 1, ZERO)

\* the points of row k (from 0) of the transposed layout
row_points(offset, domain_size, k, N) ==
    [j \in 1..N |->
        domain_point(offset, domain_size, k + (j - 1) * (domain_size \div N))]

apply_drp(evaluations, offset, alpha, N) ==
    [k \in 1..(Len(evaluations) \div N) |->
        interpolate_at(row_points(offset, Len(evaluations), k - 1, N),
                       transposed_row(evaluations, k - 1, N), alpha)]

\* the evaluations over the coset are those of a polynomial of degree at
\* most max_degree
degree_at_most(evaluations, offset, max_degree) ==
    \A j \in (max_degree + 2)..Len(evaluations) :
        interpolate_at(
            [t \in 1..(max_degree + 1) |-> domain_point(offset, Len(evaluations), t - 1)],
            SubSeq(evaluations, 1, max_degree + 1),
            domain_point(offset, Len(evaluations), j - 1)) = evaluations[j]

(***************************************************************************)
(* VectorCommitment over the hashed rows: the commitment is the hash of    *)
(* the leaves, a batch opening is the vector of leaves.                    *)
(***************************************************************************)
transpose_slice(evaluations, N) ==
    [k \in 1..(Len(evaluations) \div N) |-> transposed_row(evaluations, k - 1, N)]

flatten_vector_elements(rows) == Flatten(rows)

\* row k (from 0) of evaluations stored in transposed form
group_slice_elements(flat, k, N) == SubSeq(flat, k * N + 1, k * N + N)

leaf_hashes(transposed_evaluations) ==
    [k \in 1..Len(transposed_evaluations) |-> hash_elements(transposed_evaluations[k])]

build_layer_commitment(transposed_evaluations) ==
    [commitment |-> Hash(leaf_hashes(transposed_evaluations)),
     leaves |-> leaf_hashes(transposed_evaluations)]

open_many(vector_commitment, positions) ==
    IF \A t \in 1..Len(positions) : positions[t] < Len(vector_commitment.leaves)
    THEN Returned(vector_commitment.leaves) ELSE Panicked

verify_many(commitment, positions, hashed_values, opening_proof) ==
    /\ Hash(opening_proof) = commitment
    /\ Len(positions) = Len(hashed_values)
    /\ \A t \in 1..Len(positions) :
           /\ positions[t] < Len(opening_proof)
           /\ opening_proof[positions[t] + 1] = hashed_values[t]

FriLayer(vector_commitment, evaluations) ==
    [commitment |-> vector_commitment, evaluations |-> evaluations]

\* FriProofLayer::new: the queried rows and the opening proof as bytes
FriProofLayer_new(queried_values, opening_proof) ==
    FriProofLayer(write_elements(Flatten(queried_values)), write_digests(opening_proof))

\* FriProofLayer::parse: the values as elements (whole rows, at least one)
\* and the opening proof as digests
parsed_values(layer, folding_factor) ==
    IF /\ Len(layer.values) % (ElementBytes * folding_factor) = 0
       /\ Len(layer.values) > 0
    THEN read_elements(layer.values, Len(layer.values) \div ElementBytes, NoFields(1))
    ELSE ReadErr
parsed_opening(layer) ==
    IF Len(layer.paths) % DigestBytes = 0
    THEN read_digests(layer.paths, Len(layer.paths) \div DigestBytes, NoFields(1))
    ELSE ReadErr
layer_parse_ok(layer, folding_factor) ==
    parsed_values(layer, folding_factor).ok /\ parsed_opening(layer).ok

\* the queried rows of one layer, hashed
hashed_rows(values, N) ==
    [k \in 1..(Len(values) \div N) |-> hash_elements(group_slice_elements(values, k - 1, N))]

(***************************************************************************)
(* Prover channels (DefaultProverChannel, BatchedFriProverChannel): a coin *)
(* created from the empty seed and the commitments pushed so far.          *)
(***************************************************************************)
ProverChannel_new ==
    [public_coin |-> RandomCoin_new, function_commitments |-> <<>>,
     layer_commitments |-> <<>>]

\* the coin reseeded with the digest and the number of function commitments
PushFunctionCommitmentWithIndex(channel, function_root) ==
    [public_coin |->
         reseed(channel.public_coin,
                (function_root + Len(channel.function_commitments) + 1) % HashModulus),
     function_commitments |-> Append(channel.function_commitments, function_root),
     layer_commitments |-> channel.layer_commitments]

push_function_commitment(channel, function_root) ==
    [public_coin |-> reseed(channel.public_coin, function_root),
     function_commitments |-> Append(channel.function_commitments, function_root),
     layer_commitments |-> channel.layer_commitments]

\* the layer commitment recorded without reseeding the coin
CommitFriLayerUnabsorbed(channel, layer_root) ==
    [public_coin |-> channel.public_coin,
     function_commitments |-> channel.function_commitments,
     layer_commitments |-> Append(channel.layer_commitments, layer_root)]

commit_fri_layer(channel, layer_root) ==
    [public_coin |-> reseed(channel.public_coin, layer_root),
     function_commitments |-> channel.function_commitments,
     layer_commitments |-> Append(channel.layer_commitments, layer_root)]

\* draw_fri_alpha and draw_batched_fri_challange: the element drawn, and
\* the channel after the draw
draw_fri_alpha(channel) == draw_value(channel.public_coin)
draw_batched_fri_challange(channel) == draw_value(channel.public_coin)
channel_after_draw(channel) ==
    [channel EXCEPT !.public_coin = after_draw(channel.public_coin)]

draw_query_positions(channel, domain_size, num_queries, nonce) ==
    IF domain_size < 8 \/ ~is_power_of_two(domain_size) \/ num_queries <= 0
    THEN Panicked
    ELSE Returned(drawn_integers(channel.public_coin, num_queries, domain_size, nonce))
channel_after_draw_query_positions(channel, domain_size, num_queries, nonce) ==
    [channel EXCEPT !.public_coin =
        after_draw_integers(channel.public_coin, num_queries, domain_size, nonce)]

(***************************************************************************)
(* Options.                                                                *)
(***************************************************************************)
FriOptions(blowup_factor, folding_factor, remainder_max_degree) ==
    [blowup_factor |-> blowup_factor, folding_factor |-> folding_factor,
     remainder_max_degree |-> remainder_max_degree]

FoldingFactors == {2, 4, 8, 16}

FoldingOptions_new(blowup_factor, folding_factor, domain_size, last_poly_max_degree) ==
    IF ~is_power_of_two(blowup_factor) \/ folding_factor \notin FoldingFactors
    THEN Panicked
    ELSE Returned([blowup_factor |-> blowup_factor, folding_factor |-> folding_factor,
                   domain_size |-> domain_size,
                   last_poly_max_degree |-> last_poly_max_degree])

\* how many times current_domain_size is divided by the folding factor
\* until it is at most max_size
RECURSIVE num_foldings(_, _, _)
num_foldings(current_domain_size, max_size, folding_factor) ==
    IF current_domain_size > max_size
    THEN 1 + num_foldings(current_domain_size \div folding_factor, max_size, folding_factor)
    ELSE 0

num_fri_layers(options) ==
    num_foldings(options.domain_size,
                 next_power_of_two(options.last_poly_max_degree + 1) * options.blowup_factor,
                 options.folding_factor) + 1

fri_num_fri_layers(options, domain_size) ==
    num_foldings(domain_size,
                 next_power_of_two(options.remainder_max_degree + 1) * options.blowup_factor,
                 options.folding_factor)

(***************************************************************************)
(* Commit phase of FoldingProver and FriProver.  b is the state of the     *)
(* loop: the layers built, the channel, the current evaluations and the    *)
(* evaluation vector recorded before the last layer.                       *)
(***************************************************************************)
Building(layers, channel, evaluations) ==
    [layers |-> layers, channel |-> channel, evaluations |-> evaluations,
     last_eval_vector |-> <<>>]

layer_built(b, N, vector_commitment, committed) ==
    [layers |-> Append(b.layers,
                       FriLayer(vector_commitment,
                                flatten_vector_elements(transpose_slice(b.evaluations, N)))),
     channel |-> channel_after_draw(committed),
     evaluations |-> apply_drp(b.evaluations, GENERATOR, draw_fri_alpha(committed), N),
     last_eval_vector |-> b.last_eval_vector]

layer_committed(b, N, vector_commitment) ==
    layer_built(b, N, vector_commitment,
                commit_fri_layer(b.channel, vector_commitment.commitment))

build_layer(b, N) ==
    layer_committed(b, N, build_layer_commitment(transpose_slice(b.evaluations, N)))

\* the input of the first layer recorded instead of that of the last
RecordFirstEvalVector(b, i, n) ==
    [b EXCEPT !.last_eval_vector = IF i = 0 THEN b.evaluations ELSE @]

record_last_eval_vector(b, i, n) ==
    [b EXCEPT !.last_eval_vector = IF i = n - 1 THEN b.evaluations ELSE @]

RECURSIVE folding_build_layers_from(_, _, _, _)
folding_build_layers_from(b, i, n, N) ==
    IF i >= n THEN b
    ELSE folding_build_layers_from(build_layer(record_last_eval_vector(b, i, n), N),
                                   i + 1, n, N)

FoldingProver_new(options) == [options |-> options, layers |-> <<>>]

\* build_layers without its emptiness assertion: pushes onto the stored layers
BuildLayersUnguarded(prover, channel, evaluations) ==
    Returned(folding_build_layers_from(Building(prover.layers, channel, evaluations), 0,
                                       num_fri_layers(prover.options),
                                       prover.options.folding_factor))

\* FoldingProver::build_layers: the layers, the channel afterwards and the
\* last evaluation vector; aborts when layers were built before
FoldingProver_build_layers(prover, channel, evaluations) ==
    IF Len(prover.layers) # 0 THEN Panicked
    ELSE Returned(folding_build_layers_from(Building(<<>>, channel, evaluations), 0,
                                            num_fri_layers(prover.options),
                                            prover.options.folding_factor))

RECURSIVE fri_build_layers_from(_, _, _)
fri_build_layers_from(b, n, N) ==
    IF n = 0 THEN b ELSE fri_build_layers_from(build_layer(b, N), n - 1, N)

FriProver_new(options) == [options |-> options, layers |-> <<>>, remainder |-> <<>>]

\* FriProver::build_layers: the remainder is the evaluations left
FriProver_build_layers(fri_prover, channel, evaluations) ==
    IF Len(fri_prover.layers) # 0 \/ Len(fri_prover.remainder) # 0 THEN Panicked
    ELSE Returned(fri_build_layers_from(Building(<<>>, channel, evaluations),
                      fri_num_fri_layers(fri_prover.options, Len(evaluations)),
                      fri_prover.options.folding_factor))

(***************************************************************************)
(* Query phase.                                                            *)
(***************************************************************************)
\* prover::query_layer: the rows at the (folded) positions and their opening
prover_query_layer(layer, positions, N) ==
    FriProofLayer_new(
        [t \in 1..Len(positions) |->
            group_slice_elements(layer.evaluations, positions[t], N)],
        open_many(layer.commitment, positions).value)

\* query_layer answering at the folded positions in ascending order
QueryLayerInAscendingOrder(layer, positions, domain_size, N) ==
    prover_query_layer(layer, FoldPositionsSorted(positions, domain_size, N), N)

\* batched_prover::query_layer: folds the positions once, then opens
query_layer(layer, positions, domain_size, N) ==
    prover_query_layer(layer, fold_positions(positions, domain_size, N), N)

RECURSIVE query_layers_from(_, _, _, _, _, _)
query_layers_from(layers, i, positions, domain_size, N, acc) ==
    IF i > Len(layers) THEN acc
    ELSE query_layers_from(layers, i + 1, fold_positions(positions, domain_size, N),
             domain_size \div N, N,
             Append(acc, prover_query_layer(layers[i],
                             fold_positions(positions, domain_size, N), N)))

\* build_proof with a FoldingProof::new that accepts an empty vector
BuildProofWithoutLayers(prover, input, positions) ==
    Returned(
        [folding_proof |->
            FoldingProof(IF Len(prover.layers) = 0 THEN <<>>
                         ELSE query_layers_from(prover.layers, 1, positions,
                                  Len(prover.layers[1].evaluations),
                                  prover.options.folding_factor, <<>>)),
         evaluation_vector |-> [t \in 1..Len(positions) |-> input[positions[t] + 1]]])

\* build_proof with the input read at the positions folded once
BuildProofAtFoldedPositions(prover, input, positions) ==
    IF Len(prover.layers) = 0 THEN Panicked
    ELSE Returned(
        [folding_proof |->
            FoldingProof(query_layers_from(prover.layers, 1, positions,
                             Len(prover.layers[1].evaluations),
                             prover.options.folding_factor, <<>>)),
         evaluation_vector |->
            [t \in 1..Len(positions) |->
                input[(positions[t] % (Len(prover.layers[1].evaluations)
                                          \div prover.options.folding_factor)) + 1]]])

\* FoldingProver::build_proof: the folding proof and the input at the
\* (unfolded) positions; FoldingProof::new aborts when no layer was built
FoldingProver_build_proof(prover, input, positions) ==
    IF Len(prover.layers) = 0 THEN Panicked
    ELSE Returned(
        [folding_proof |->
            FoldingProof(query_layers_from(prover.layers, 1, positions,
                             Len(prover.layers[1].evaluations),
                             prover.options.folding_factor, <<>>)),
         evaluation_vector |-> [t \in 1..Len(positions) |-> input[positions[t] + 1]]])

\* FriProver::build_proof
FriProver_build_proof(fri_prover, positions) ==
    IF Len(fri_prover.remainder) = 0 THEN Panicked
    ELSE Returned(
        FriProof(IF Len(fri_prover.layers) = 0 THEN <<>>
                 ELSE query_layers_from(fri_prover.layers, 1, positions,
                          Len(fri_prover.layers[1].evaluations),
                          fri_prover.options.folding_factor, <<>>),
                 write_elements(fri_prover.remainder), 1))

(***************************************************************************)
(* BatchedFriProver.                                                       *)
(***************************************************************************)
BatchedFriProver_new(options) ==
    [fri_prover |-> FriProver_new(options), function_layers |-> <<>>,
     channel |-> ProverChannel_new]

function_layer_of(vector_commitment, evaluations, N) ==
    FriLayer(vector_commitment, flatten_vector_elements(transpose_slice(evaluations, N)))

\* build_function_layer: commits to the input and pushes the commitment
build_function_layer(prover, evaluations, N) ==
    [fri_prover |-> prover.fri_prover,
     function_layers |->
         Append(prover.function_layers,
                function_layer_of(build_layer_commitment(transpose_slice(evaluations, N)),
                                  evaluations, N)),
     channel |->
         push_function_commitment(prover.channel,
             build_layer_commitment(transpose_slice(evaluations, N)).commitment)]

RECURSIVE build_function_layers(_, _, _, _)
build_function_layers(prover, inputs, i, N) ==
    IF i > Len(inputs) THEN prover
    ELSE build_function_layers(build_function_layer(prover, inputs[i], N), inputs, i + 1, N)

\* every batching proof taken from the first function layer
ComputeBatchingProofsOfFirstLayer(prover, positions, domain_size) ==
    IF Len(prover.function_layers) = 0 THEN Panicked
    ELSE Returned([i \in 1..Len(prover.function_layers) |->
             query_layer(prover.function_layers[1], positions, domain_size,
                         prover.fri_prover.options.folding_factor)])

compute_batching_proofs(prover, positions, domain_size) ==
    IF Len(prover.function_layers) = 0 THEN Panicked
    ELSE Returned([i \in 1..Len(prover.function_layers) |->
             query_layer(prover.function_layers[i], positions, domain_size,
                         prover.fri_prover.options.folding_factor)])

\* the FriProver and the channel of a master after FriProver::build_layers
master_after_build_layers(prover, b) ==
    [fri_prover |-> [options |-> prover.fri_prover.options, layers |-> b.layers,
                     remainder |-> b.evaluations],
     function_layers |-> prover.function_layers,
     channel |-> b.channel]

\* the last layer commitments pushed from the last worker to the first
RECURSIVE PushLastLayerCommitmentsDescending(_, _, _)
PushLastLayerCommitmentsDescending(channel, worker_layer_commitments, i) ==
    IF i > Len(worker_layer_commitments) THEN channel
    ELSE push_function_commitment(
             PushLastLayerCommitmentsDescending(channel, worker_layer_commitments, i + 1),
             worker_layer_commitments[i][Len(worker_layer_commitments[i])])

\* prove_fold_and_batch, step 2: the last layer commitment of every worker
\* is pushed as a function commitment, workers in index order
RECURSIVE push_last_layer_commitments(_, _, _)
push_last_layer_commitments(channel, worker_layer_commitments, i) ==
    IF i > Len(worker_layer_commitments) THEN channel
    ELSE push_last_layer_commitments(
             push_function_commitment(channel,
                 worker_layer_commitments[i][Len(worker_layer_commitments[i])]),
             worker_layer_commitments, i + 1)

\* prove_fold_and_batch, step 7: positions folded down to the master domain
RECURSIVE fold_to_domain(_, _, _, _)
fold_to_domain(positions, current_domain_size, master_domain_size, folding_factor) ==
    IF current_domain_size > master_domain_size
    THEN fold_to_domain(fold_positions(positions, current_domain_size, folding_factor),
                        current_domain_size \div folding_factor, master_domain_size,
                        folding_factor)
    ELSE positions

elements_as_bytes(evaluations) == write_elements(evaluations)

evaluations_at(evaluations, positions) ==
    [t \in 1..Len(positions) |-> evaluations[positions[t] + 1]]

(***************************************************************************)
(* BatchedFriProof.                                                        *)
(***************************************************************************)
BatchedFriProof_new(fri_proof, evaluations, batching_proofs, layer_commitments, function_commitments) ==
    [fri_proof |-> fri_proof, evaluations |-> evaluations,
     batching_proofs |-> batching_proofs, layer_commitments |-> layer_commitments,
     function_commitments |-> function_commitments]

(***************************************************************************)
(* Outcomes of a verification: still running, Ok, a typed VerifierError,   *)
(* or an abort (panic, failed assertion, unwrap, index out of bounds).     *)
(***************************************************************************)
Running == [kind |-> "running", error |-> "none"]
Ok == [kind |-> "ok", error |-> "none"]
Err(e) == [kind |-> "err", error |-> e]
Panic(e) == [kind |-> "panic", error |-> e]

(***************************************************************************)
(* Verifier channels: the layers of a proof parsed into rows and opening   *)
(* proofs, next to the layer commitments.                                  *)
(***************************************************************************)
VerifierChannel(layer_commitments, layers, folding_factor, remainder) ==
    [layer_commitments |-> layer_commitments,
     layer_values |-> [i \in 1..Len(layers) |-> parsed_values(layers[i], folding_factor).val],
     layer_openings |-> [i \in 1..Len(layers) |-> parsed_opening(layers[i]).val],
     remainder |-> remainder]

NoChannel == VerifierChannel(<<>>, <<>>, 2, <<>>)

layers_parse_ok(layers, folding_factor) ==
    \A i \in 1..Len(layers) : layer_parse_ok(layers[i], folding_factor)

parse_elements(element_bytes) ==
    IF Len(element_bytes) % ElementBytes = 0
    THEN read_elements(element_bytes, Len(element_bytes) \div ElementBytes, NoFields(1))
    ELSE ReadErr

DefaultVerifierChannel_new(fri_proof, layer_commitments, domain_size, folding_factor) ==
    IF /\ layers_parse_ok(fri_proof.layers, folding_factor)
       /\ parse_elements(fri_proof.remainder).ok
    THEN ReadOk(VerifierChannel(layer_commitments, fri_proof.layers, folding_factor,
                                parse_elements(fri_proof.remainder).val), 0)
    ELSE ReadErr

FoldingVerifierChannel_new(folding_proof, layer_commitments, domain_size, folding_factor) ==
    IF layers_parse_ok(folding_proof.folding_proof, folding_factor)
    THEN ReadOk(VerifierChannel(layer_commitments, folding_proof.folding_proof,
                                folding_factor, <<>>), 0)
    ELSE ReadErr

(***************************************************************************)
(* The commit phase replayed by a verifier: every layer commitment is      *)
(* absorbed, then its alpha is drawn.                                      *)
(***************************************************************************)
Replay(coin, layer_alphas) == [coin |-> coin, layer_alphas |-> layer_alphas]

replayed(st, reseeded) ==
    Replay(after_draw(reseeded), Append(st.layer_alphas, draw_value(reseeded)))

RECURSIVE replay_layer_commitments(_, _, _)
replay_layer_commitments(st, layer_commitments, i) ==
    IF i > Len(layer_commitments) THEN st
    ELSE replay_layer_commitments(replayed(st, reseed(st.coin, layer_commitments[i])),
                                  layer_commitments, i + 1)

(***************************************************************************)
(* The query phase of a verifier, layer by layer.  q holds the positions,  *)
(* the evaluations expected at them and the size of the current domain.    *)
(***************************************************************************)
Query(err, positions, evaluations, domain_size) ==
    [err |-> err, positions |-> positions, evaluations |-> evaluations,
     domain_size |-> domain_size]

\* get_query_values: the value of every position in the opened rows
layer_query_values(values, positions, folded_positions, domain_size, N) ==
    [t \in 1..Len(positions) |->
        values[extract_index(positions[t], folded_positions, domain_size \div N, N) + 1]]

\* the row polynomials evaluated at alpha
folded_evaluations(values, folded_positions, domain_size, N, alpha) ==
    [t \in 1..Len(folded_positions) |->
        interpolate_at(row_points(GENERATOR, domain_size, folded_positions[t], N),
                       group_slice_elements(values, t - 1, N), alpha)]

verify_layer(q, commitment, values, opening, alpha, N, folded_positions) ==
    IF ~verify_many(commitment, folded_positions, hashed_rows(values, N), opening)
    THEN Query("LayerCommitmentMismatch", q.positions, q.evaluations, q.domain_size)
    ELSE IF q.evaluations #
            layer_query_values(values, q.positions, folded_positions, q.domain_size, N)
    THEN Query("InvalidLayerFolding", q.positions, q.evaluations, q.domain_size)
    ELSE Query("none", folded_positions,
               folded_evaluations(values, folded_positions, q.domain_size, N, alpha),
               q.domain_size \div N)

RECURSIVE verify_layers_from(_, _, _, _, _, _)
verify_layers_from(q, channel, layer_alphas, N, depth, num_layers) ==
    IF depth > num_layers \/ q.err # "none" THEN q
    ELSE verify_layers_from(
             verify_layer(q, channel.layer_commitments[depth], channel.layer_values[depth],
                          channel.layer_openings[depth], layer_alphas[depth], N,
                          fold_positions(q.positions, q.domain_size, N)),
             channel, layer_alphas, N, depth + 1, num_layers)

\* the remainder agrees with the last folding and has a low degree
verify_remainder(q, remainder, remainder_max_degree) ==
    IF q.err # "none" THEN q.err
    ELSE IF Len(remainder) # q.domain_size
            \/ \E t \in 1..Len(q.positions) : q.positions[t] >= Len(remainder)
    THEN "InvalidRemainderFolding"
    ELSE IF \E t \in 1..Len(q.positions) :
                remainder[q.positions[t] + 1] # q.evaluations[t]
    THEN "InvalidRemainderFolding"
    ELSE IF ~degree_at_most(remainder, GENERATOR, remainder_max_degree)
    THEN "RemainderDegreeMismatch"
    ELSE "none"

(***************************************************************************)
(* FriVerifier and FoldingVerifier.                                        *)
(***************************************************************************)
LayeredVerifier(err, coin, channel, layer_alphas, N, num_layers, domain_size, remainder_max_degree) ==
    [err |-> err, coin |-> coin, channel |-> channel, layer_alphas |-> layer_alphas,
     folding_factor |-> N, num_layers |-> num_layers, domain_size |-> domain_size,
     remainder_max_degree |-> remainder_max_degree]

verifier_of_replay(st, channel, N, num_layers, domain_size, remainder_max_degree) ==
    LayeredVerifier(
        IF /\ Len(channel.layer_commitments) = num_layers
           /\ Len(channel.layer_values) = num_layers
        THEN "none" ELSE "InvalidNumberOfLayers",
        st.coin, channel, st.layer_alphas, N, num_layers, domain_size,
        remainder_max_degree)

FriVerifier_new(channel, public_coin, options, max_poly_degree) ==
    verifier_of_replay(
        replay_layer_commitments(Replay(public_coin, <<>>), channel.layer_commitments, 1),
        channel, options.folding_factor,
        fri_num_fri_layers(options,
            next_power_of_two(max_poly_degree + 1) * options.blowup_factor),
        next_power_of_two(max_poly_degree + 1) * options.blowup_factor,
        options.remainder_max_degree)

FriVerifier_verify(v, evaluations, positions) ==
    IF Len(evaluations) # Len(positions) THEN "NumPositionEvaluationMismatch"
    ELSE IF \E t \in 1..Len(positions) : positions[t] >= v.domain_size
    THEN "InvalidLayerFolding"
    ELSE verify_remainder(
             verify_layers_from(Query("none", positions, evaluations, v.domain_size),
                                v.channel, v.layer_alphas, v.folding_factor, 1,
                                v.num_layers),
             v.channel.remainder, v.remainder_max_degree)

FoldingVerifier_new(channel, public_coin, options, max_poly_degree) ==
    verifier_of_replay(
        replay_layer_commitments(Replay(public_coin, <<>>), channel.layer_commitments, 1),
        channel, options.folding_factor, num_fri_layers(options), options.domain_size,
        options.last_poly_max_degree)

folding_verify_parsed(v, evaluations, positions) ==
    IF ~evaluations.ok THEN "InvalidEvaluations"
    ELSE IF Len(evaluations.val) # Len(positions)
    THEN "NumPositionEvaluationMismatch"
    ELSE verify_layers_from(Query("none", positions, evaluations.val, v.domain_size),
                            v.channel, v.layer_alphas, v.folding_factor, 1,
                            v.num_layers).err

FoldingVerifier_verify(v, evaluation_bytes, positions) ==
    folding_verify_parsed(v, parse_elements(evaluation_bytes), positions)

(***************************************************************************)
(* The steps BatchedFriVerifier::verify and FoldAndBatchVerifier::         *)
(* verify_batched_fri share.  fr is the frame of the call: the coin, the   *)
(* proof, the locals, and the outcome once the call has ended.             *)
(***************************************************************************)
Frame(public_coin, batched_proof, options, degree_bound, domain_size, num_queries) ==
    [public_coin |-> public_coin, proof |-> batched_proof, options |-> options,
     degree_bound |-> degree_bound, domain_size |-> domain_size,
     num_queries |-> num_queries, outcome |-> Running,
     batched_fri_challenge |-> ZERO, channel |-> NoChannel,
     fri_verifier |-> LayeredVerifier("none", public_coin, NoChannel, <<>>, 2, 0, 0, 0),
     worker_query_positions |-> <<>>, query_positions |-> <<>>,
     queried_evaluations |-> <<>>, queried_values |-> <<>>, opening_proofs |-> <<>>]

RECURSIVE reseed_all(_, _, _)
reseed_all(coin, commitments, i) ==
    IF i > Len(commitments) THEN coin
    ELSE reseed_all(reseed(coin, commitments[i]), commitments, i + 1)

\* the function commitments absorbed from the last to the first
AbsorbFunctionCommitmentsReversed(fr) ==
    [fr EXCEPT !.public_coin =
        reseed_all(fr.public_coin,
                   [i \in 1..Len(fr.proof.function_commitments) |->
                       fr.proof.function_commitments[
                           Len(fr.proof.function_commitments) + 1 - i]], 1)]

\* batched_verifier: the function commitments are absorbed in order
absorb_function_commitments(fr) ==
    [fr EXCEPT !.public_coin = reseed_all(fr.public_coin, fr.proof.function_commitments, 1)]

\* fold_and_batch_verifier: every commitment of every worker is absorbed,
\* workers in order, layers in order
absorb_worker_layer_commitments(fr, worker_layer_commitments) ==
    [fr EXCEPT !.public_coin =
        reseed_all(fr.public_coin, Flatten(worker_layer_commitments), 1)]

draw_challenge(fr) ==
    [fr EXCEPT !.batched_fri_challenge = draw_value(fr.public_coin),
               !.public_coin = after_draw(fr.public_coin)]

channel_opened(fr, channel) ==
    IF channel.ok THEN [fr EXCEPT !.channel = channel.val]
    ELSE [fr EXCEPT !.outcome = Panic("unwrap on DefaultVerifierChannel::new")]

prepare_channel(fr) ==
    IF fr.outcome # Running THEN fr
    ELSE channel_opened(fr,
             DefaultVerifierChannel_new(fr.proof.fri_proof, fr.proof.layer_commitments,
                                        fr.domain_size, fr.options.folding_factor))

fri_verifier_created(fr, v) ==
    IF v.err # "none" THEN [fr EXCEPT !.outcome = Err(v.err)]
    ELSE [fr EXCEPT !.fri_verifier = v, !.public_coin = v.coin]

create_fri_verifier(fr) ==
    IF fr.outcome # Running THEN fr
    ELSE fri_verifier_created(fr,
             FriVerifier_new(fr.channel, fr.public_coin, fr.options, fr.degree_bound - 1))

\* draw_integers over positions_domain_size, sort_unstable, dedup
draw_positions(fr, positions_domain_size) ==
    IF fr.outcome # Running THEN fr
    ELSE [fr EXCEPT
            !.query_positions =
                sort_dedup(drawn_integers(fr.public_coin, fr.num_queries,
                                          positions_domain_size, 0)),
            !.worker_query_positions =
                sort_dedup(drawn_integers(fr.public_coin, fr.num_queries,
                                          positions_domain_size, 0)),
            !.public_coin =
                after_draw_integers(fr.public_coin, fr.num_queries,
                                    positions_domain_size, 0)]

RECURSIVE fold_times(_, _, _, _)
fold_times(positions, current_domain_size, folding_factor, n) ==
    IF n = 0 THEN positions
    ELSE fold_times(fold_positions(positions, current_domain_size, folding_factor),
                    current_domain_size \div folding_factor, folding_factor, n - 1)

fold_query_positions(fr, worker_domain_size, num_worker_folding) ==
    IF fr.outcome # Running THEN fr
    ELSE [fr EXCEPT !.query_positions =
            fold_times(fr.query_positions, worker_domain_size,
                       fr.options.folding_factor, num_worker_folding)]

evaluations_parsed(fr, evaluations) ==
    IF evaluations.ok THEN [fr EXCEPT !.queried_evaluations = evaluations.val]
    ELSE [fr EXCEPT !.outcome = Err("InvalidEvaluations")]

parse_evaluations(fr) ==
    IF fr.outcome # Running THEN fr
    ELSE evaluations_parsed(fr, parse_elements(fr.proof.evaluations))

fri_verified(fr, err) ==
    IF err = "none" THEN fr ELSE [fr EXCEPT !.outcome = Err(err)]

verify_fri(fr) ==
    IF fr.outcome # Running THEN fr
    ELSE fri_verified(fr, FriVerifier_verify(fr.fri_verifier, fr.queried_evaluations,
                                             fr.query_positions))

parse_batching_proofs(fr) ==
    IF fr.outcome # Running THEN fr
    ELSE IF ~layers_parse_ok(fr.proof.batching_proofs, fr.options.folding_factor)
    THEN [fr EXCEPT !.outcome = Err("FunctionOpeningsDeserializationError")]
    ELSE [fr EXCEPT
            !.queried_values =
                [i \in 1..Len(fr.proof.batching_proofs) |->
                    parsed_values(fr.proof.batching_proofs[i],
                                  fr.options.folding_factor).val],
            !.opening_proofs =
                [i \in 1..Len(fr.proof.batching_proofs) |->
                    parsed_opening(fr.proof.batching_proofs[i]).val]]

\* only the first of the openings checked
VerifyFirstOpeningOnly(function_commitments, queried_values, opening_proofs, query_positions, domain_size, N) ==
    IF Len(function_commitments) # Len(queried_values)
       \/ Len(queried_values) # Len(opening_proofs)
    THEN Panic("assert_eq in verify_opening_proofs")
    ELSE IF \A i \in {k \in 1..Len(function_commitments) : k = 1} :
                verify_many(function_commitments[i],
                            fold_positions(query_positions, domain_size, N),
                            hashed_rows(queried_values[i], N), opening_proofs[i])
    THEN Ok
    ELSE Err("LayerCommitmentMismatch")

verify_opening_proofs(function_commitments, queried_values, opening_proofs, query_positions, domain_size, N) ==
    IF Len(function_commitments) # Len(queried_values)
       \/ Len(queried_values) # Len(opening_proofs)
    THEN Panic("assert_eq in verify_opening_proofs")
    ELSE IF \A i \in 1..Len(function_commitments) :
                verify_many(function_commitments[i],
                            fold_positions(query_positions, domain_size, N),
                            hashed_rows(queried_values[i], N), opening_proofs[i])
    THEN Ok
    ELSE Err("LayerCommitmentMismatch")

opening_proofs_verified(fr, outcome) ==
    IF outcome = Ok THEN fr ELSE [fr EXCEPT !.outcome = outcome]

check_opening_proofs(fr) ==
    IF fr.outcome # Running THEN fr
    ELSE opening_proofs_verified(fr,
             verify_opening_proofs(fr.proof.function_commitments, fr.queried_values,
                                   fr.opening_proofs, fr.query_positions,
                                   fr.domain_size, fr.options.folding_factor))

verify_batching_expected(batched_evaluations, expected_batched_evaluations) ==
    IF expected_batched_evaluations.panic
    THEN Panic("assert in combine_poly_evaluations")
    ELSE IF expected_batched_evaluations.value # batched_evaluations
    THEN Err("InvalidPolynomialBatching")
    ELSE Ok

verify_batching_unbatched(batched_evaluations, unbatched_evaluations, challenge) ==
    IF unbatched_evaluations.panic THEN Panic("index out of bounds in extract_evaluations")
    ELSE verify_batching_expected(batched_evaluations,
             combine_poly_evaluations(unbatched_evaluations.value, challenge))

verify_batching(query_positions, batched_evaluations, queried_values, batched_fri_challenge, domain_size, folding_factor) ==
    verify_batching_unbatched(batched_evaluations,
        extract_evaluations(query_positions, queried_values, domain_size, folding_factor),
        batched_fri_challenge)

\* the batching checked whether or not an earlier stage has ended the call
CheckBatchingUnguarded(fr) ==
    [fr EXCEPT !.outcome =
        verify_batching(fr.query_positions, fr.queried_evaluations, fr.queried_values,
                        fr.batched_fri_challenge, fr.domain_size,
                        fr.options.folding_factor)]

\* the batching is checked last, when no earlier stage has ended the call
check_batching(fr) ==
    IF fr.outcome # Running THEN fr
    ELSE [fr EXCEPT !.outcome =
            verify_batching(fr.query_positions, fr.queried_evaluations,
                            fr.queried_values, fr.batched_fri_challenge,
                            fr.domain_size, fr.options.folding_factor)]

NoRun == [phase |-> "none"]

(***************************************************************************)
(* BatchedFriVerifier.                                                     *)
(***************************************************************************)
BatchedFriVerifier_new(public_coin, num_queries, options, degree_bound) ==
    [public_coin |-> public_coin, degree_bound |-> degree_bound,
     domain_size |-> options.blowup_factor * next_power_of_two(degree_bound),
     num_queries |-> num_queries, options |-> options]

BatchedFriVerifier_verify(verifier, batched_proof) ==
    check_batching(
    check_opening_proofs(
    parse_batching_proofs(
    verify_fri(
    parse_evaluations(
    draw_positions(
        create_fri_verifier(
        prepare_channel(
        draw_challenge(
        absorb_function_commitments(
            Frame(verifier.public_coin, batched_proof, verifier.options,
                  verifier.degree_bound, verifier.domain_size,
                  verifier.num_queries))))),
        verifier.domain_size))))))

(***************************************************************************)
(* FoldAndBatchVerifier.                                                   *)
(***************************************************************************)
\* FoldAndBatchVerifier::new without its assertion on the degree bounds
VerifierNewUnchecked(public_coin, num_queries, options, worker_degree_bound, master_degree_bound) ==
    Returned(
        [public_coin |-> public_coin,
         worker_degree_bound |-> worker_degree_bound,
         master_degree_bound |-> master_degree_bound,
         worker_domain_size |->
             options.blowup_factor * next_power_of_two(worker_degree_bound),
         master_domain_size |->
             options.blowup_factor * next_power_of_two(master_degree_bound),
         num_queries |-> num_queries, options |-> options])

FoldAndBatchVerifier_new(public_coin, num_queries, options, worker_degree_bound, master_degree_bound) ==
    IF worker_degree_bound < master_degree_bound THEN Panicked
    ELSE Returned(
        [public_coin |-> public_coin,
         worker_degree_bound |-> worker_degree_bound,
         master_degree_bound |-> master_degree_bound,
         worker_domain_size |->
             options.blowup_factor * next_power_of_two(worker_degree_bound),
         master_domain_size |->
             options.blowup_factor * next_power_of_two(master_degree_bound),
         num_queries |-> num_queries, options |-> options])

num_worker_folding(verifier) ==
    num_foldings(verifier.worker_domain_size, verifier.master_domain_size,
                 verifier.options.folding_factor)

verify_batched_fri(verifier, batched_proof, worker_layer_commitments) ==
    check_batching(
    check_opening_proofs(
    parse_batching_proofs(
    verify_fri(
    parse_evaluations(
    fold_query_positions(
        draw_positions(
            create_fri_verifier(
            prepare_channel(
            draw_challenge(
            absorb_worker_layer_commitments(
                Frame(verifier.public_coin, batched_proof, verifier.options,
                      verifier.master_degree_bound, verifier.master_domain_size,
                      verifier.num_queries),
                worker_layer_commitments)))),
            verifier.worker_domain_size),
        verifier.worker_domain_size, num_worker_folding(verifier)))))))

(***************************************************************************)
(* verify_fold_and_batch, step by step.  vs is the state of the call: the  *)
(* verifier, the folding verifiers of step 1, the frame of step 2 and the  *)
(* outcome once the call has ended.                                        *)
(***************************************************************************)
Verification(verifier) ==
    [verifier |-> verifier, folding_verifiers |-> <<>>, outcome |-> Running,
     function_commitments |-> <<>>, batched_fri_challenge |-> ZERO,
     worker_query_positions |-> <<>>]

NoVerification == Verification(NoRun)

min(a, b) == IF a < b THEN a ELSE b

\* the FoldingOptions of step 1
folding_verifier_options(verifier) ==
    FoldingOptions_new(verifier.options.blowup_factor, verifier.options.folding_factor,
                       verifier.worker_domain_size,
                       verifier.master_degree_bound - 1)

folding_verifier_pushed(vs, v) ==
    IF v.err # "none" THEN [vs EXCEPT !.outcome = Err(v.err)]
    ELSE [vs EXCEPT !.folding_verifiers = Append(@, v)]

folding_verifier_created(vs, channel, options) ==
    IF ~channel.ok
    THEN [vs EXCEPT !.outcome = Panic("unwrap on FoldingVerifierChannel::new")]
    ELSE IF options.panic
    THEN [vs EXCEPT !.outcome = Panic("assert in FoldingOptions::new")]
    ELSE folding_verifier_pushed(vs,
             FoldingVerifier_new(channel.val, RandomCoin_new, options.value,
                                 vs.verifier.worker_degree_bound - 1))

\* step 1: one FoldingVerifier per (folding proof, commitment vector) pair
RECURSIVE prepare_folding_verifiers(_, _, _)
prepare_folding_verifiers(vs, received, i) ==
    IF vs.outcome # Running
       \/ i > min(Len(received.folding_proofs), Len(received.worker_layer_commitments))
    THEN vs
    ELSE prepare_folding_verifiers(
             folding_verifier_created(vs,
                 FoldingVerifierChannel_new(received.folding_proofs[i],
                     received.worker_layer_commitments[i],
                     vs.verifier.worker_domain_size,
                     vs.verifier.options.folding_factor),
                 folding_verifier_options(vs.verifier)),
             received, i + 1)

\* step 2: the last commitment of every worker
last_layer_commitments(worker_layer_commitments) ==
    [i \in 1..Len(worker_layer_commitments) |->
        worker_layer_commitments[i][Len(worker_layer_commitments[i])]]

reconstructed_batched_fri_proof(received) ==
    BatchedFriProof_new(received.fri_proof, received.master_evaluations,
        [i \in 1..Len(received.folding_proofs) |->
            batching_proof(received.folding_proofs[i])],
        received.master_layer_commitments,
        last_layer_commitments(received.worker_layer_commitments))

batched_fri_verified(vs, received, fr) ==
    [vs EXCEPT !.outcome = IF fr.outcome = Ok THEN Running ELSE fr.outcome,
               !.verifier.public_coin = fr.public_coin,
               !.function_commitments =
                   last_layer_commitments(received.worker_layer_commitments),
               !.batched_fri_challenge = fr.batched_fri_challenge,
               !.worker_query_positions = fr.worker_query_positions]

verify_reconstructed_proof(vs, received) ==
    IF vs.outcome # Running THEN vs
    ELSE IF \E i \in 1..Len(received.worker_layer_commitments) :
                Len(received.worker_layer_commitments[i]) = 0
    THEN [vs EXCEPT !.outcome = Panic("expect on an empty commitment vector")]
    ELSE batched_fri_verified(vs, received,
             verify_batched_fri(vs.verifier, reconstructed_batched_fri_proof(received),
                                received.worker_layer_commitments))

\* step 3: every folding proof against the worker query positions
folding_proof_verified(vs, err) ==
    IF err = "none" THEN vs ELSE [vs EXCEPT !.outcome = Err(err)]

RECURSIVE verify_folding_proofs(_, _, _)
verify_folding_proofs(vs, received, i) ==
    IF vs.outcome # Running THEN vs
    ELSE IF i > Len(received.folding_proofs) THEN [vs EXCEPT !.outcome = Ok]
    ELSE IF i > Len(vs.folding_verifiers) \/ i > Len(received.worker_evaluations)
    THEN [vs EXCEPT !.outcome = Panic("index out of bounds")]
    ELSE verify_folding_proofs(
             folding_proof_verified(vs,
                 FoldingVerifier_verify(vs.folding_verifiers[i],
                                        received.worker_evaluations[i],
                                        vs.worker_query_positions)),
             received, i + 1)

verify_fold_and_batch(verifier, received) ==
    verify_folding_proofs(
        verify_reconstructed_proof(
            prepare_folding_verifiers(Verification(verifier), received, 1),
            received),
        received, 1)


(***************************************************************************)
(* Specification of the helper functions: one call per behaviour, the      *)
(* arguments drawn from bounded sets.                                      *)
(***************************************************************************)
Elems == {2, Modulus - 1}
Challenges == {0, 1, 5, Modulus - 1}
HelperDomains == {4, 8}
HelperFoldingFactors == {2, 4}

SeqsUpTo(S, n) == UNION {[1..k -> S] : k \in 0..n}

\* the evaluation vectors the position helpers are tried on
SampleVector(D, a) == [j \in 1..D |-> (a * (j - 1) + D - j + 1) % Modulus]

ExampleEvaluations == << <<0, 1, 2>>, <<3, 4, 5>>, <<6, 7, 8>> >>
ExamplePositions == <<0, 2, 4, 5, 6>>
ExampleVector == <<8, 7, 6, 5, 4, 3, 2, 1>>

CombineArgs ==
    {[fn |-> "combine", evaluations |-> ev, challenge |-> a] :
        ev \in UNION {[1..m -> [1..l -> Elems]] : m \in 1..MaxPoly, l \in 0..MaxLen},
        a \in Challenges}
    \cup {[fn |-> "combine", evaluations |-> ExampleEvaluations, challenge |-> a] :
             a \in {5, 10}}

PositionArgs(fn) ==
    UNION {UNION {
        {[fn |-> fn, positions |-> ps, domain_size |-> D, folding_factor |-> N,
          vectors |-> [i \in 1..m |-> SampleVector(D, i + 1)]] :
            ps \in SeqsUpTo(0..(D - 1), MaxPositions), m \in 1..2}
        : D \in HelperDomains} : N \in HelperFoldingFactors}
    \cup {[fn |-> fn, positions |-> ExamplePositions, domain_size |-> 8,
           folding_factor |-> 2, vectors |-> <<ExampleVector>>]}

\* the opened rows of every vector, laid out as the prover's query_layer does
queried_values_of(a) ==
    [i \in 1..Len(a.vectors) |->
        opened_rows(a.vectors[i],
                    fold_positions(a.positions, a.domain_size, a.folding_factor),
                    a.folding_factor)]

InitHelpers ==
    /\ pc = "call"
    /\ args \in CombineArgs \cup PositionArgs("extract") \cup PositionArgs("fold")
    /\ ret = Returned(<<>>)
    /\ run = NoRun
    /\ proof = NoProof /\ bytes = <<>> /\ parsed = NotRead /\ sized = NotSized

CallCombine ==
    /\ pc = "call" /\ args.fn = "combine"
    /\ ret' = combine_poly_evaluations(args.evaluations, args.challenge)
    /\ pc' = "returned"
    /\ UNCHANGED <<args, serialVars, run>>

CallExtract ==
    /\ pc = "call" /\ args.fn = "extract"
    /\ ret' = extract_evaluations(args.positions, queried_values_of(args),
                                  args.domain_size, args.folding_factor)
    /\ pc' = "returned"
    /\ UNCHANGED <<args, serialVars, run>>

CallFold ==
    /\ pc = "call" /\ args.fn = "fold"
    /\ ret' = Returned(fold_positions(args.positions, args.domain_size,
                                      args.folding_factor))
    /\ pc' = "returned"
    /\ UNCHANGED <<args, serialVars, run>>

NextHelpers == CallCombine \/ CallExtract \/ CallFold

SpecHelpers == InitHelpers /\ [][NextHelpers]_vars

(***************************************************************************)
(* Properties of the helper functions.                                     *)
(***************************************************************************)
RECURSIVE PowerSum(_, _, _, _)
PowerSum(evaluations, j, challenge, i) ==
    IF i > Len(evaluations) THEN ZERO
    ELSE FAdd(FMul(FPow(challenge, i - 1), evaluations[i][j]),
              PowerSum(evaluations, j, challenge, i + 1))

\* C5: combine_poly_evaluations returns a vector as long as the inputs whose
\* entry j is the sum over i of alpha^i * v_i[j]; the two literal examples.
C5_CombineIsPowerSum ==
    (pc = "returned" /\ args.fn = "combine") =>
        /\ ~ret.panic
        /\ Len(ret.value) = Len(args.evaluations[1])
        /\ \A j \in 1..Len(ret.value) :
               ret.value[j] = PowerSum(args.evaluations, j, args.challenge, 1)
        /\ (args.evaluations = ExampleEvaluations /\ args.challenge = 5)
               => ret.value = <<165, 196, 227>>
        /\ (args.evaluations = ExampleEvaluations /\ args.challenge = 10)
               => ret.value = <<630, 741, 852>>

C5_Witness ==
    /\ pc = "returned" /\ args.fn = "combine"
    /\ args.evaluations = ExampleEvaluations /\ args.challenge = 10
    /\ ret.value = <<630, 741, 852>>

\* C6: on opened rows laid out in the order of fold_positions,
\* extract_evaluations returns v_i[positions[t]] for every i and t.
C6_ExtractRecoversEvaluations ==
    (pc = "returned" /\ args.fn = "extract") =>
        /\ ~ret.panic
        /\ Len(ret.value) = Len(args.vectors)
        /\ \A i \in 1..Len(args.vectors) :
               /\ Len(ret.value[i]) = Len(args.positions)
               /\ \A t \in 1..Len(args.positions) :
                      ret.value[i][t] = args.vectors[i][args.positions[t] + 1]

C6_Witness ==
    /\ pc = "returned" /\ args.fn = "extract"
    /\ args.positions = ExamplePositions
    /\ queried_values_of(args) = << <<8, 4, 6, 2, 7, 3>> >>
    /\ ret.value = << <<8, 6, 4, 3, 2>> >>

folded_set(a) ==
    {a.positions[t] % (a.domain_size \div a.folding_factor) : t \in 1..Len(a.positions)}

first_occurrence(a, x) ==
    CHOOSE t \in 1..Len(a.positions) :
        /\ a.positions[t] % (a.domain_size \div a.folding_factor) = x
        /\ \A u \in 1..(t - 1) :
               a.positions[u] % (a.domain_size \div a.folding_factor) # x

\* C7 (as amended): fold_positions returns the duplicate-free list of
\* p mod (D/N) in the order in which the values first occur in positions;
\* fold_positions([0,2,4,5,6], 8, 2) = [0,2,1].
C7_FoldFirstOccurrenceOrder ==
    (pc = "returned" /\ args.fn = "fold") =>
        /\ Range(ret.value) = folded_set(args)
        /\ \A a, b \in 1..Len(ret.value) :
               a < b => /\ ret.value[a] # ret.value[b]
                        /\ first_occurrence(args, ret.value[a])
                               < first_occurrence(args, ret.value[b])
        /\ (args.positions = ExamplePositions /\ args.domain_size = 8
                /\ args.folding_factor = 2) => ret.value = <<0, 2, 1>>

C7_Witness ==
    /\ pc = "returned" /\ args.fn = "fold"
    /\ args.positions = ExamplePositions /\ args.domain_size = 8
    /\ args.folding_factor = 2
    /\ ret.value = <<0, 2, 1>>

\* C7 (as claimed): fold_positions returns the ascending-sorted,
\* duplicate-free list of p mod (D/N); the example gives [0,1,2].
C7_FoldSortedAscending ==
    (pc = "returned" /\ args.fn = "fold") =>
        /\ Range(ret.value) = folded_set(args)
        /\ \A a, b \in 1..Len(ret.value) : a < b => ret.value[a] < ret.value[b]
        /\ (args.positions = ExamplePositions /\ args.domain_size = 8
                /\ args.folding_factor = 2) => ret.value = <<0, 1, 2>>

(***************************************************************************)
(* Specification of the proof container: a proof is built, written, read   *)
(* back and measured.                                                      *)
(***************************************************************************)
Blob(n, b) == [k \in 1..n |-> b]

SampleLayer(i, l) == FriProofLayer(<<(16 * i + l) % 128, l>>, Blob(l, i + 1))
SampleDigest(i, l) == 257 * (16 * i + l) + 1
SampleFriProof(nm) ==
    FriProof([l \in 1..nm |-> SampleLayer(0, l)], <<5, 0, 7, 0>>, 1)

\* byte lengths of one worker's queried evaluations: none, one or two
\* elements
EvaluationByteLengths == {0, ElementBytes, 2 * ElementBytes}

SampleProof(nw, nl, nc, nm, el, ml) ==
    FoldAndBatchProofOf(
        [i \in 1..nw |-> FoldingProof([l \in 1..nl |-> SampleLayer(i, l)])],
        SampleFriProof(nm),
        [i \in 1..nw |-> Blob(el, 0)],
        Blob(ml, 0),
        [i \in 1..nw |-> [l \in 1..nc |-> SampleDigest(i, l)]],
        [l \in 1..nm |-> SampleDigest(0, l)])

\* one worker, one layer, and queried evaluations of the first byte length
\* that no longer fits a u16 (U16Range / ElementBytes zero elements)
LongEvaluationsProof == SampleProof(1, 1, 1, 1, U16Range, 0)

SampleProofs ==
    {SampleProof(nw, nl, nc, nm, el, ml) :
        nw \in 0..MaxWorkers, nl \in 1..MaxLayers, nc \in 0..MaxLayers,
        nm \in 0..MaxLayers, el \in EvaluationByteLengths,
        ml \in {0, ElementBytes}}
    \cup {LongEvaluationsProof}

\* the shape of a proof FoldAndBatchProof::new gets from the prover: one
\* folding proof, evaluation vector and commitment vector per worker, one
\* commitment per folding-proof layer, one master commitment per FRI layer
IsProverShaped(P) ==
    /\ Len(P.folding_proofs) >= 1
    /\ Len(P.worker_evaluations) = Len(P.folding_proofs)
    /\ Len(P.worker_layer_commitments) = Len(P.folding_proofs)
    /\ \A i \in 1..Len(P.folding_proofs) :
           /\ Len(P.folding_proofs[i].folding_proof) >= 1
           /\ Len(P.worker_layer_commitments[i]) = Len(P.folding_proofs[i].folding_proof)
           /\ Len(P.worker_evaluations[i]) % ElementBytes = 0
    /\ Len(P.master_evaluations) % ElementBytes = 0
    /\ Len(P.master_layer_commitments) = Len(P.fri_proof.layers)

InitSerial ==
    /\ pc = "built"
    /\ proof \in SampleProofs
    /\ bytes = <<>> /\ parsed = NotRead /\ sized = NotSized
    /\ args = [fn |-> "none"] /\ ret = Returned(<<>>)
    /\ run = NoRun

CallWriteInto ==
    /\ pc = "built"
    /\ bytes' = fold_and_batch_proof_write_into(proof)
    /\ pc' = "written"
    /\ UNCHANGED <<proof, parsed, sized, pureVars, run>>

CallReadFrom ==
    /\ pc = "written"
    /\ parsed' = fold_and_batch_proof_read_from(bytes, 1)
    /\ pc' = "read"
    /\ UNCHANGED <<proof, bytes, sized, pureVars, run>>

CallSize ==
    /\ pc = "read"
    /\ sized' = fold_and_batch_proof_size(proof)
    /\ pc' = "sized"
    /\ UNCHANGED <<proof, bytes, parsed, pureVars, run>>

NextSerial == CallWriteInto \/ CallReadFrom \/ CallSize

SpecSerial == InitSerial /\ [][NextSerial]_vars

\* C8 (as claimed): every proof of the prover's shape, written and read
\* back, is read successfully, to the last byte, and equals the original.
C8_RoundTrip ==
    (pc \in {"read", "sized"} /\ IsProverShaped(proof)) =>
        /\ parsed.ok
        /\ parsed.pos = Len(bytes) + 1
        /\ parsed.val = proof

\* C9 (as claimed): size() is the number of bytes write_into emits, for
\* proofs whose commitment vectors are all non-empty.
C9_SizeIsBytesWritten ==
    (/\ pc = "sized"
     /\ Len(proof.master_layer_commitments) > 0
     /\ \A i \in 1..Len(proof.worker_layer_commitments) :
            Len(proof.worker_layer_commitments[i]) > 0) =>
        /\ ~sized.panic
        /\ sized.value = Len(bytes)

(***************************************************************************)
(* Parameters and inputs of a run, as the test harnesses derive them.      *)
(***************************************************************************)
MaxQueries == 2
PolySeeds == {1, 2}

Setup(lde_blowup, folding_factor, worker_degree_bound, worker_last_poly_max_degree, master_remainder_max_degree, num_queries) ==
    [lde_blowup |-> lde_blowup, folding_factor |-> folding_factor,
     worker_degree_bound |-> worker_degree_bound,
     worker_domain_size |-> lde_blowup * worker_degree_bound,
     worker_last_poly_max_degree |-> worker_last_poly_max_degree,
     master_degree_bound |-> worker_last_poly_max_degree + 1,
     master_domain_size |->
         lde_blowup * next_power_of_two(worker_last_poly_max_degree + 1),
     master_options |-> FriOptions(lde_blowup, folding_factor,
                                   master_remainder_max_degree),
     num_queries |-> num_queries]

\* blowup 2, folding factor 2, the last worker polynomial of degree at most
\* 3 over a master domain of 8 points: workers of degree bound 4 build one
\* layer, workers of degree bound 8 build two
Setups == {Setup(2, 2, d, 3, 1, q) : d \in {4, 8}, q \in 1..MaxQueries}

BatchedSetup(lde_blowup, folding_factor, degree_bound, max_remainder_degree, num_queries) ==
    [options |-> FriOptions(lde_blowup, folding_factor, max_remainder_degree),
     degree_bound |-> degree_bound, domain_size |-> lde_blowup * degree_bound,
     num_queries |-> num_queries]

BatchedSetups == {BatchedSetup(2, 2, 4, r, q) : r \in {0, 1}, q \in 1..MaxQueries}

\* the coefficients of the polynomial of a seed, degree below degree_bound
poly_of_seed(seed, degree_bound) ==
    [k \in 1..degree_bound |-> (1000 * seed + 37 * k * k) % Modulus]

build_evaluations_from_random_poly(seed, degree_bound, lde_blowup) ==
    evaluate_poly(poly_of_seed(seed, degree_bound), ONE, degree_bound * lde_blowup)

InputsOf(degree_bound, lde_blowup) ==
    UNION {{[i \in 1..num_poly |->
                build_evaluations_from_random_poly(seeds[i], degree_bound, lde_blowup)] :
               seeds \in [1..num_poly -> PolySeeds]} : num_poly \in 1..MaxWorkers}

NoBatchedFriProof == BatchedFriProof_new(FriProof(<<>>, <<>>, 1), <<>>, <<>>, <<>>, <<>>)
NoFrame == Frame(RandomCoin_new, NoBatchedFriProof, FriOptions(2, 2, 0), 0, 0, 0)

\* the locals of a run: of the prover while it proves, of the verifier
\* while it verifies
RunOf(setup, inputs, worker_nodes, master_prover) ==
    [setup |-> setup, inputs |-> inputs, worker_nodes |-> worker_nodes,
     worker_layer_commitments |-> <<>>, batched_fri_inputs |-> <<>>,
     master_prover |-> master_prover, challenge |-> ZERO,
     batched_evaluations |-> <<>>, query_positions |-> <<>>,
     folding_proofs |-> <<>>, worker_evaluations |-> <<>>,
     batched_proof |-> NoBatchedFriProof, frame |-> NoFrame,
     verification |-> NoVerification]

worker_options(setup) ==
    FoldingOptions_new(setup.lde_blowup, setup.folding_factor, setup.worker_domain_size,
                       setup.worker_last_poly_max_degree).value

FoldAndBatchRun(setup, inputs) ==
    RunOf(setup, inputs,
          [i \in 1..Len(inputs) |-> FoldingProver_new(worker_options(setup))],
          BatchedFriProver_new(setup.master_options))

BatchedFriRun(setup, inputs) ==
    RunOf(setup, inputs, <<>>, BatchedFriProver_new(setup.options))

(***************************************************************************)
(* The steps of the provers on the locals of a run.                        *)
(***************************************************************************)
\* step 1, worker i: the commit phase on its own channel
worker_committed(r, i, b) ==
    [r EXCEPT !.worker_nodes[i].layers = b.layers,
              !.worker_layer_commitments = Append(@, b.channel.layer_commitments),
              !.batched_fri_inputs = Append(@, b.last_eval_vector)]

\* step 2
last_commitments_pushed(r) ==
    [r EXCEPT !.master_prover.channel =
        push_last_layer_commitments(@, r.worker_layer_commitments, 1)]

\* the challenge is drawn and the vectors are batched
challenge_drawn(r, evaluations) ==
    [r EXCEPT !.challenge = draw_batched_fri_challange(r.master_prover.channel),
              !.batched_evaluations =
                  combine_poly_evaluations(evaluations,
                      draw_batched_fri_challange(r.master_prover.channel)).value,
              !.master_prover.channel = channel_after_draw(@)]

\* the FRI commit phase on the batched vector
layers_built(r) ==
    [r EXCEPT !.master_prover =
        master_after_build_layers(@,
            FriProver_build_layers(r.master_prover.fri_prover, r.master_prover.channel,
                                   r.batched_evaluations).value)]

\* the query positions are drawn, sorted and deduplicated
positions_drawn(r, domain_size) ==
    [r EXCEPT !.query_positions =
                  sort_dedup(draw_query_positions(r.master_prover.channel, domain_size,
                                                  r.setup.num_queries, 0).value),
              !.master_prover.channel =
                  channel_after_draw_query_positions(@, domain_size,
                                                     r.setup.num_queries, 0)]

\* step 6, worker i
worker_queried(r, built) ==
    [r EXCEPT !.folding_proofs = Append(@, built.folding_proof),
              !.worker_evaluations = Append(@, built.evaluation_vector)]

\* steps 7 and 8
fold_and_batch_proof_of(r, positions) ==
    fold_and_batch_proof_new(r.folding_proofs,
        FriProver_build_proof(r.master_prover.fri_prover, positions).value,
        r.worker_evaluations,
        evaluations_at(r.batched_evaluations, positions),
        r.worker_layer_commitments,
        r.master_prover.channel.layer_commitments).value

\* build_proof, step 5
batched_fri_proof_of(r) ==
    BatchedFriProof_new(
        FriProver_build_proof(r.master_prover.fri_prover, r.query_positions).value,
        elements_as_bytes(evaluations_at(r.batched_evaluations, r.query_positions)),
        compute_batching_proofs(r.master_prover, r.query_positions,
                                r.setup.domain_size).value,
        r.master_prover.channel.layer_commitments,
        r.master_prover.channel.function_commitments)

(***************************************************************************)
(* Specification of Fold-and-Batch: the workers commit, the master absorbs,*)
(* batches, folds and draws the positions, the workers and the master      *)
(* answer the queries, the proof is written, read back and verified.       *)
(***************************************************************************)
InitFoldAndBatch ==
    /\ pc = "worker_commit"
    /\ \E setup \in Setups :
           \E inputs \in InputsOf(setup.worker_degree_bound, setup.lde_blowup) :
               run = FoldAndBatchRun(setup, inputs)
    /\ proof = NoProof /\ bytes = <<>> /\ parsed = NotRead /\ sized = NotSized
    /\ args = [fn |-> "none"] /\ ret = Returned(<<>>)

WorkerCommit ==
    /\ pc = "worker_commit"
    /\ run' = worker_committed(run, Len(run.worker_layer_commitments) + 1,
                  FoldingProver_build_layers(
                      run.worker_nodes[Len(run.worker_layer_commitments) + 1],
                      ProverChannel_new,
                      run.inputs[Len(run.worker_layer_commitments) + 1]).value)
    /\ pc' = IF Len(run.worker_layer_commitments) + 1 = Len(run.inputs)
             THEN "master_absorb" ELSE "worker_commit"
    /\ UNCHANGED <<serialVars, pureVars>>

MasterAbsorb ==
    /\ pc = "master_absorb"
    /\ run' = last_commitments_pushed(run)
    /\ pc' = "master_batch"
    /\ UNCHANGED <<serialVars, pureVars>>

MasterBatch ==
    /\ pc = "master_batch"
    /\ run' = challenge_drawn(run, run.batched_fri_inputs)
    /\ pc' = "master_build_layers"
    /\ UNCHANGED <<serialVars, pureVars>>

MasterBuildLayers ==
    /\ pc = "master_build_layers"
    /\ run' = layers_built(run)
    /\ pc' = "master_draw_positions"
    /\ UNCHANGED <<serialVars, pureVars>>

MasterDrawPositions ==
    /\ pc = "master_draw_positions"
    /\ run' = positions_drawn(run, run.setup.worker_domain_size)
    /\ pc' = "worker_query"
    /\ UNCHANGED <<serialVars, pureVars>>

WorkerQuery ==
    /\ pc = "worker_query"
    /\ run' = worker_queried(run,
                  FoldingProver_build_proof(
                      run.worker_nodes[Len(run.folding_proofs) + 1],
                      run.inputs[Len(run.folding_proofs) + 1],
                      run.query_positions).value)
    /\ pc' = IF Len(run.folding_proofs) + 1 = Len(run.inputs)
             THEN "master_query" ELSE "worker_query"
    /\ UNCHANGED <<serialVars, pureVars>>

MasterQuery ==
    /\ pc = "master_query"
    /\ proof' = fold_and_batch_proof_of(run,
                    fold_to_domain(run.query_positions, run.setup.worker_domain_size,
                                   run.setup.master_domain_size,
                                   run.setup.folding_factor))
    /\ pc' = "built"
    /\ UNCHANGED <<bytes, parsed, sized, pureVars, run>>

fresh_verifier(setup) ==
    FoldAndBatchVerifier_new(RandomCoin_new, setup.num_queries, setup.master_options,
                             setup.worker_degree_bound, setup.master_degree_bound).value

VerifyPrepare ==
    /\ pc = "read" /\ parsed.ok
    /\ run' = [run EXCEPT !.verification =
                  prepare_folding_verifiers(Verification(fresh_verifier(run.setup)),
                                            parsed.val, 1)]
    /\ pc' = "prepared"
    /\ UNCHANGED <<serialVars, pureVars>>

VerifyBatchedFri ==
    /\ pc = "prepared"
    /\ run' = [run EXCEPT !.verification = verify_reconstructed_proof(@, parsed.val)]
    /\ pc' = "batched_fri_verified"
    /\ UNCHANGED <<serialVars, pureVars>>

VerifyFoldingProofs ==
    /\ pc = "batched_fri_verified"
    /\ run' = [run EXCEPT !.verification = verify_folding_proofs(@, parsed.val, 1)]
    /\ pc' = "verified"
    /\ UNCHANGED <<serialVars, pureVars>>

NextFoldAndBatch ==
    \/ WorkerCommit \/ MasterAbsorb \/ MasterBatch \/ MasterBuildLayers
    \/ MasterDrawPositions \/ WorkerQuery \/ MasterQuery
    \/ CallWriteInto \/ CallReadFrom
    \/ VerifyPrepare \/ VerifyBatchedFri \/ VerifyFoldingProofs

SpecFoldAndBatch == InitFoldAndBatch /\ [][NextFoldAndBatch]_vars


(***************************************************************************)
(* Specification of standalone batched FRI: build_proof step by step, then *)
(* BatchedFriVerifier::verify on the proof.                                *)
(***************************************************************************)
InitBatchedFri ==
    /\ pc = "function_layers"
    /\ \E setup \in BatchedSetups :
           \E inputs \in InputsOf(setup.degree_bound, setup.options.blowup_factor) :
               run = BatchedFriRun(setup, inputs)
    /\ proof = NoProof /\ bytes = <<>> /\ parsed = NotRead /\ sized = NotSized
    /\ args = [fn |-> "none"] /\ ret = Returned(<<>>)

BuildFunctionLayer ==
    /\ pc = "function_layers"
    /\ run' = [run EXCEPT !.master_prover =
                  build_function_layer(@,
                      run.inputs[Len(run.master_prover.function_layers) + 1],
                      run.setup.options.folding_factor)]
    /\ pc' = IF Len(run.master_prover.function_layers) + 1 = Len(run.inputs)
             THEN "batch" ELSE "function_layers"
    /\ UNCHANGED <<serialVars, pureVars>>

BatchInputs ==
    /\ pc = "batch"
    /\ run' = challenge_drawn(run, run.inputs)
    /\ pc' = "build_layers"
    /\ UNCHANGED <<serialVars, pureVars>>

BuildLayers ==
    /\ pc = "build_layers"
    /\ run' = layers_built(run)
    /\ pc' = "draw_positions"
    /\ UNCHANGED <<serialVars, pureVars>>

DrawPositions ==
    /\ pc = "draw_positions"
    /\ run' = positions_drawn(run, run.setup.domain_size)
    /\ pc' = "build_proof"
    /\ UNCHANGED <<serialVars, pureVars>>

BuildBatchedProof ==
    /\ pc = "build_proof"
    /\ run' = [run EXCEPT !.batched_proof = batched_fri_proof_of(run)]
    /\ pc' = "batched_built"
    /\ UNCHANGED <<serialVars, pureVars>>

VerifyBatchedProof ==
    /\ pc = "batched_built"
    /\ run' = [run EXCEPT !.frame =
                  BatchedFriVerifier_verify(
                      BatchedFriVerifier_new(RandomCoin_new, run.setup.num_queries,
                                             run.setup.options, run.setup.degree_bound),
                      run.batched_proof)]
    /\ pc' = "batched_verified"
    /\ UNCHANGED <<serialVars, pureVars>>

NextBatchedFri ==
    \/ BuildFunctionLayer \/ BatchInputs \/ BuildLayers \/ DrawPositions
    \/ BuildBatchedProof \/ VerifyBatchedProof

SpecBatchedFri == InitBatchedFri /\ [][NextBatchedFri]_vars

(***************************************************************************)
(* fold_and_batch_prove as one function of the parameters and the inputs.  *)
(***************************************************************************)
RECURSIVE workers_committed(_, _)
workers_committed(r, i) ==
    IF i > Len(r.inputs) THEN r
    ELSE workers_committed(
             worker_committed(r, i,
                 FoldingProver_build_layers(r.worker_nodes[i], ProverChannel_new,
                                            r.inputs[i]).value),
             i + 1)

inputs_batched(r) == challenge_drawn(r, r.batched_fri_inputs)

fold_and_batch_master_commit(r) ==
    positions_drawn(layers_built(inputs_batched(last_commitments_pushed(r))),
                    r.setup.worker_domain_size)

RECURSIVE workers_queried(_, _)
workers_queried(r, i) ==
    IF i > Len(r.inputs) THEN r
    ELSE workers_queried(
             worker_queried(r,
                 FoldingProver_build_proof(r.worker_nodes[i], r.inputs[i],
                                           r.query_positions).value),
             i + 1)

fold_and_batch_master_query(r) ==
    fold_and_batch_proof_of(r,
        fold_to_domain(r.query_positions, r.setup.worker_domain_size,
                       r.setup.master_domain_size, r.setup.folding_factor))

fold_and_batch_prove(setup, inputs) ==
    fold_and_batch_master_query(
        workers_queried(
            fold_and_batch_master_commit(
                workers_committed(FoldAndBatchRun(setup, inputs), 1)),
            1))

(***************************************************************************)
(* Specification of the verifier on received proofs: any proof that can be *)
(* written is read back and handed to verify_fold_and_batch.               *)
(***************************************************************************)
\* a layer of one well-formed row and an opening of one digest
ReceivedLayer(i, l) ==
    FriProofLayer(write_elements(<<i, l>>), write_digests(<<SampleDigest(i, l)>>))

\* nf folding proofs, ne evaluation vectors, ncv commitment vectors of nc
\* commitments each, around a FRI proof of one layer
ReceivedProof(nf, ne, ncv, nc) ==
    FoldAndBatchProofOf(
        [i \in 1..nf |-> FoldingProof(<<ReceivedLayer(i, 1)>>)],
        FriProof(<<ReceivedLayer(0, 1)>>, write_elements(<<1, 2, 3, 4>>), 1),
        [i \in 1..ne |-> write_elements(<<i>>)],
        write_elements(<<7>>),
        [i \in 1..ncv |-> [l \in 1..nc |-> SampleDigest(i, l)]],
        <<SampleDigest(0, 1)>>)

\* the proof of an honest prover, and what is left of it when one of its
\* vectors is dropped or one of its opened value vectors grows by a row
Tampered(honest) ==
    {honest,
     [honest EXCEPT !.worker_evaluations = <<>>],
     [honest EXCEPT !.worker_layer_commitments = <<>>],
     [honest EXCEPT !.folding_proofs[1].folding_proof[1].values =
                        @ \o write_elements(<<ZERO, ZERO>>)]}

\* as many elements as the bytes hold, every one of them v
forged_elements(element_bytes, v) ==
    write_elements([j \in 1..(Len(element_bytes) \div ElementBytes) |-> v])

\* the proof of an honest prover with the evaluations of the first worker,
\* the evaluations of the master or the rows opened by the first worker
\* replaced by other values of the same length
Forged(honest) ==
    {[honest EXCEPT !.worker_evaluations[1] = forged_elements(@, ONE)],
     [honest EXCEPT !.master_evaluations = forged_elements(@, ONE)],
     [honest EXCEPT !.folding_proofs[1].folding_proof[1].values = forged_elements(@, ONE)]}

HonestProof(setup) ==
    fold_and_batch_prove(setup,
        <<build_evaluations_from_random_poly(1, setup.worker_degree_bound, setup.lde_blowup)>>)

\* a master that batches nothing: it draws the challenge and runs FRI on
\* the evaluations of a polynomial of its own over the master domain
ZeroWorkerRun(setup) ==
    positions_drawn(
        layers_built(
            [FoldAndBatchRun(setup, <<>>) EXCEPT
                !.batched_evaluations =
                    build_evaluations_from_random_poly(1, setup.master_degree_bound,
                                                       setup.lde_blowup),
                !.master_prover.channel = channel_after_draw(@)]),
        setup.worker_domain_size)

\* its proof: no folding proof, no worker evaluations, no worker commitments
ZeroWorkerProof(setup) == fold_and_batch_master_query(ZeroWorkerRun(setup))

ReceivedProofs(setup) ==
    {ReceivedProof(nf, ne, ncv, nc) :
        nf \in 0..MaxWorkers, ne \in 0..MaxWorkers, ncv \in 0..MaxWorkers,
        nc \in 0..MaxLayers}
    \cup Tampered(HonestProof(setup)) \cup Forged(HonestProof(setup))
    \cup {ZeroWorkerProof(setup)}

InitReceived ==
    /\ pc = "built"
    /\ \E setup \in Setups :
           /\ run = FoldAndBatchRun(setup, <<>>)
           /\ proof \in ReceivedProofs(setup)
    /\ bytes = <<>> /\ parsed = NotRead /\ sized = NotSized
    /\ args = [fn |-> "none"] /\ ret = Returned(<<>>)

NextReceived ==
    \/ CallWriteInto \/ CallReadFrom
    \/ VerifyPrepare \/ VerifyBatchedFri \/ VerifyFoldingProofs

SpecReceived == InitReceived /\ [][NextReceived]_vars


(***************************************************************************)
(* Properties of the Fiat-Shamir transcripts and of the end-to-end run.    *)
(***************************************************************************)
\* what a coin absorbed before its first draw
RECURSIVE absorbed_before_draw(_, _)
absorbed_before_draw(log, t) ==
    IF t > Len(log) \/ log[t].op # "reseed" THEN <<>>
    ELSE <<log[t].v>> \o absorbed_before_draw(log, t + 1)

prover_log == run.master_prover.channel.public_coin.log
verifier_log == run.verification.verifier.public_coin.log

\* the commitments worker i made, read off its layers
worker_commitments(i) ==
    [l \in 1..Len(run.worker_nodes[i].layers) |->
        run.worker_nodes[i].layers[l].commitment.commitment]

last_worker_commitments ==
    [i \in 1..Len(run.inputs) |-> worker_commitments(i)[Len(worker_commitments(i))]]

\* entry j of a vector stored in transposed form
untransposed(flat, N) ==
    [j \in 1..Len(flat) |->
        flat[((j - 1) % (Len(flat) \div N)) * N + ((j - 1) \div (Len(flat) \div N)) + 1]]

\* the reduced vector r_i of worker i: what its last layer commits to
reduced_vector(i) ==
    untransposed(run.worker_nodes[i].layers[Len(run.worker_nodes[i].layers)].evaluations,
                 run.setup.folding_factor)

AfterAbsorb ==
    {"master_batch", "master_build_layers", "master_draw_positions", "worker_query",
     "master_query", "built", "written", "read", "prepared", "batched_fri_verified",
     "verified"}
AfterBatch == AfterAbsorb \ {"master_batch"}
AfterBuilt == {"built", "written", "read", "prepared", "batched_fri_verified", "verified"}
AfterBatchedFri == {"batched_fri_verified", "verified"}

\* C1 (as claimed): the proof of the honest prover, written and read back,
\* is accepted by verify_fold_and_batch on a fresh verifier.
C1_HonestProofAccepted ==
    pc = "verified" => run.verification.outcome = Ok

\* C2 (as claimed): before the batching challenge is drawn, the master
\* prover and the verifier have both absorbed every layer commitment of
\* every worker, workers in order and layers in order, and they draw the
\* same challenge.
C2_AllWorkerCommitmentsAbsorbed ==
    pc \in AfterBatchedFri =>
        /\ absorbed_before_draw(prover_log, 1) = Flatten(run.worker_layer_commitments)
        /\ absorbed_before_draw(verifier_log, 1) = Flatten(run.worker_layer_commitments)
        /\ run.challenge = run.verification.batched_fri_challenge

\* C3: the master absorbs the workers' commitments in ascending worker
\* index, the batched vector is the sum of alpha^i * r_i, entry i of
\* folding_proofs, worker_evaluations and worker_layer_commitments of the
\* proof belongs to worker i, and so does function commitment i the
\* verifier rebuilds.
C3_WorkerIndexAlignment ==
    /\ pc \in AfterAbsorb =>
           /\ absorbed_before_draw(prover_log, 1) = last_worker_commitments
           /\ run.master_prover.channel.function_commitments = last_worker_commitments
    /\ pc \in AfterBatch =>
           /\ prover_log[Len(run.inputs) + 1] = Event("draw", run.challenge)
           /\ Len(run.batched_evaluations) = run.setup.master_domain_size
           /\ \A j \in 1..Len(run.batched_evaluations) :
                  run.batched_evaluations[j] =
                      PowerSum([i \in 1..Len(run.inputs) |-> reduced_vector(i)], j,
                               run.challenge, 1)
    /\ pc \in AfterBuilt =>
           /\ Len(proof.folding_proofs) = Len(run.inputs)
           /\ Len(proof.worker_evaluations) = Len(run.inputs)
           /\ Len(proof.worker_layer_commitments) = Len(run.inputs)
           /\ \A i \in 1..Len(run.inputs) :
                  /\ proof.folding_proofs[i] =
                         FoldingProver_build_proof(run.worker_nodes[i], run.inputs[i],
                                                   run.query_positions).value.folding_proof
                  /\ proof.worker_evaluations[i] =
                         write_elements(evaluations_at(run.inputs[i], run.query_positions))
                  /\ proof.worker_layer_commitments[i] = worker_commitments(i)
    /\ pc \in AfterBatchedFri =>
           run.verification.function_commitments = last_worker_commitments

C3_Witness ==
    /\ pc = "verified"
    /\ Len(run.inputs) = 2
    /\ run.setup.worker_degree_bound = 8
    /\ run.challenge \notin {ZERO, ONE}
    /\ run.verification.function_commitments = last_worker_commitments
    /\ last_worker_commitments[1] # last_worker_commitments[2]
    /\ reduced_vector(1) # reduced_vector(2)

(***************************************************************************)
(* The transcript of standalone batched FRI.                               *)
(***************************************************************************)
\* the commitment build_function_layer makes to one input
function_commitment_of(evaluations, N) ==
    build_layer_commitment(transpose_slice(evaluations, N)).commitment

drawn_positions(log, from, q) == [t \in 1..q |-> log[from + t].v]

\* function commitments in input order, the batching challenge, every layer
\* commitment followed by the draw of its alpha, the query positions last
transcript_in_order(log, inputs, N, challenge, layer_commitments, q, positions) ==
    /\ Len(log) = Len(inputs) + 1 + 2 * Len(layer_commitments) + q
    /\ \A i \in 1..Len(inputs) :
           log[i] = Event("reseed", function_commitment_of(inputs[i], N))
    /\ log[Len(inputs) + 1] = Event("draw", challenge)
    /\ \A l \in 1..Len(layer_commitments) :
           /\ log[Len(inputs) + 2 * l] = Event("reseed", layer_commitments[l])
           /\ log[Len(inputs) + 2 * l + 1].op = "draw"
    /\ \A t \in 1..q :
           log[Len(inputs) + 1 + 2 * Len(layer_commitments) + t].op = "draw_integer"
    /\ positions =
           sort_dedup(drawn_positions(log, Len(inputs) + 1 + 2 * Len(layer_commitments), q))

\* C4: the prover absorbs the function commitments in input order, draws
\* the batching challenge, commits to and draws for every FRI layer and
\* draws the query positions last; the verifier replays the same sequence
\* and derives the same challenge and the same query positions.
C4_BatchedTranscriptReplayed ==
    /\ pc \in {"batched_built", "batched_verified"} =>
           transcript_in_order(prover_log, run.inputs, run.setup.options.folding_factor,
                               run.challenge,
                               run.master_prover.channel.layer_commitments,
                               run.setup.num_queries, run.query_positions)
    /\ pc = "batched_verified" =>
           /\ run.frame.public_coin.log = prover_log
           /\ run.frame.batched_fri_challenge = run.challenge
           /\ run.frame.query_positions = run.query_positions

C4_Witness ==
    /\ pc = "batched_verified"
    /\ Len(run.inputs) = 2
    /\ function_commitment_of(run.inputs[1], 2) # function_commitment_of(run.inputs[2], 2)
    /\ Len(run.master_prover.channel.layer_commitments) = 2
    /\ run.frame.public_coin.log = prover_log
    /\ run.frame.outcome = Ok

\* C10 (as claimed): verify_fold_and_batch on a proof that was read
\* successfully ends with Ok or a typed error, never with an abort.
C10_NeverAborts ==
    (pc = "verified" /\ parsed.ok) =>
        run.verification.outcome.kind \in {"ok", "err"}

(***************************************************************************)
(* Properties of the stages of verify_fold_and_batch.                      *)
(***************************************************************************)
\* the stages of verify_batched_fri in the order of its statements
BatchedFriStages ==
    <<"absorb", "draw_challenge", "prepare_channel", "create_fri_verifier",
      "draw_positions", "fold_query_positions", "parse_evaluations", "verify_fri",
      "parse_batching_proofs", "check_opening_proofs", "check_batching">>

frame_after_stage(stage, fr, verifier, worker_layer_commitments) ==
    CASE stage = "absorb" -> absorb_worker_layer_commitments(fr, worker_layer_commitments)
      [] stage = "draw_challenge" -> draw_challenge(fr)
      [] stage = "prepare_channel" -> prepare_channel(fr)
      [] stage = "create_fri_verifier" -> create_fri_verifier(fr)
      [] stage = "draw_positions" -> draw_positions(fr, verifier.worker_domain_size)
      [] stage = "fold_query_positions" ->
             fold_query_positions(fr, verifier.worker_domain_size,
                                  num_worker_folding(verifier))
      [] stage = "parse_evaluations" -> parse_evaluations(fr)
      [] stage = "verify_fri" -> verify_fri(fr)
      [] stage = "parse_batching_proofs" -> parse_batching_proofs(fr)
      [] stage = "check_opening_proofs" -> check_opening_proofs(fr)
      [] stage = "check_batching" -> check_batching(fr)

\* the frame of verify_batched_fri after each of its stages
batched_fri_frames(verifier, batched_proof, worker_layer_commitments) ==
    LET f[k \in 0..Len(BatchedFriStages)] ==
            IF k = 0
            THEN Frame(verifier.public_coin, batched_proof, verifier.options,
                       verifier.master_degree_bound, verifier.master_domain_size,
                       verifier.num_queries)
            ELSE frame_after_stage(BatchedFriStages[k], f[k - 1], verifier,
                                   worker_layer_commitments)
    IN  [k \in 1..Len(BatchedFriStages) |-> f[k]]

\* a stage that finds the call ended leaves the frame as it is
later_stages_skipped(frames) ==
    \A k \in 1..(Len(frames) - 1) :
        frames[k].outcome # Running => frames[k + 1] = frames[k]

\* the worker commitments, the challenge, every master layer commitment
\* with its alpha, the query positions: the order of the verifier's draws
verifier_transcript_in_order(log, worker_layer_commitments, challenge, layer_commitments, q) ==
    /\ Len(log) = Len(Flatten(worker_layer_commitments)) + 1 + 2 * Len(layer_commitments) + q
    /\ absorbed_before_draw(log, 1) = Flatten(worker_layer_commitments)
    /\ log[Len(Flatten(worker_layer_commitments)) + 1] = Event("draw", challenge)
    /\ \A l \in 1..Len(layer_commitments) :
           /\ log[Len(Flatten(worker_layer_commitments)) + 2 * l]
                  = Event("reseed", layer_commitments[l])
           /\ log[Len(Flatten(worker_layer_commitments)) + 2 * l + 1].op = "draw"
    /\ \A t \in 1..q :
           log[Len(Flatten(worker_layer_commitments)) + 1 + 2 * Len(layer_commitments) + t].op
               = "draw_integer"

\* the state of the call after step 1, and the frames of step 2, for the
\* proof that was read
received_prepared ==
    prepare_folding_verifiers(Verification(fresh_verifier(run.setup)), parsed.val, 1)

received_frames ==
    batched_fri_frames(fresh_verifier(run.setup),
                       reconstructed_batched_fri_proof(parsed.val),
                       parsed.val.worker_layer_commitments)

received_last_frame == received_frames[Len(BatchedFriStages)]

no_empty_commitment_vector ==
    \A i \in 1..Len(parsed.val.worker_layer_commitments) :
        Len(parsed.val.worker_layer_commitments[i]) > 0

\* the folding proofs before proof i were all accepted
foldings_accepted_before(vs, received, i) ==
    \A j \in 1..(i - 1) :
        /\ j <= Len(vs.folding_verifiers) /\ j <= Len(received.worker_evaluations)
        /\ FoldingVerifier_verify(vs.folding_verifiers[j], received.worker_evaluations[j],
                                  vs.worker_query_positions) = "none"

frame_at(stage) == received_frames[IndexOf(BatchedFriStages, stage) + 1]

\* C11: verify_fold_and_batch absorbs the worker commitments, draws the
\* challenge and the query positions, verifies the master FRI proof, the
\* openings and the batching, then every folding proof, in this order; a
\* stage that fails ends the call with its outcome and no later stage runs;
\* Ok is returned only after every stage succeeded.
C11_StagesInOrder ==
    (pc \in AfterBatchedFri /\ parsed.ok) =>
        /\ received_prepared.outcome # Running => run.verification = received_prepared
        /\ (received_prepared.outcome = Running /\ no_empty_commitment_vector) =>
               /\ later_stages_skipped(received_frames)
               /\ verifier_log = received_last_frame.public_coin.log
               /\ frame_at("draw_positions").outcome = Running =>
                      verifier_transcript_in_order(verifier_log,
                          parsed.val.worker_layer_commitments,
                          run.verification.batched_fri_challenge,
                          parsed.val.master_layer_commitments, run.setup.num_queries)
               /\ received_last_frame.outcome # Ok =>
                      run.verification =
                          batched_fri_verified(received_prepared, parsed.val,
                                               received_last_frame)
               /\ (pc = "verified" /\ received_last_frame.outcome = Ok) =>
                      /\ run.verification.outcome # Running
                      /\ run.verification.outcome.kind = "err" =>
                             \E i \in 1..Len(parsed.val.folding_proofs) :
                                 /\ foldings_accepted_before(run.verification, parsed.val, i)
                                 /\ i <= Len(run.verification.folding_verifiers)
                                 /\ i <= Len(parsed.val.worker_evaluations)
                                 /\ FoldingVerifier_verify(
                                        run.verification.folding_verifiers[i],
                                        parsed.val.worker_evaluations[i],
                                        run.verification.worker_query_positions)
                                    = run.verification.outcome.error
        /\ run.verification.outcome = Ok =>
               /\ pc = "verified"
               /\ received_prepared.outcome = Running
               /\ \A k \in 1..(Len(BatchedFriStages) - 1) :
                      received_frames[k].outcome = Running
               /\ received_last_frame.outcome = Ok
               /\ foldings_accepted_before(run.verification, parsed.val,
                                           Len(parsed.val.folding_proofs) + 1)

\* a proof rejected by a stage in the middle of verify_batched_fri
C11_Witness ==
    /\ pc = "verified" /\ parsed.ok
    /\ received_prepared.outcome = Running /\ no_empty_commitment_vector
    /\ frame_at("parse_evaluations").outcome = Running
    /\ frame_at("verify_fri").outcome.kind = "err"
    /\ run.verification.outcome = frame_at("verify_fri").outcome
    /\ verifier_log = frame_at("draw_positions").public_coin.log

(***************************************************************************)
(* Specification of a verifier that is used twice: one call of             *)
(* verify_fold_and_batch on a received proof, then a second call of        *)
(* verify_fold_and_batch or of verify_batched_fri on the same instance.    *)
(***************************************************************************)
InitReuse ==
    /\ pc = "built"
    /\ \E setup \in Setups :
           /\ run = FoldAndBatchRun(setup, <<>>)
           /\ proof \in ReceivedProofs(setup)
           /\ args \in {[fn |-> "reuse", second |-> second] :
                           second \in {proof, HonestProof(setup)}}
    /\ bytes = <<>> /\ parsed = NotRead /\ sized = NotSized
    /\ ret = Returned(<<>>)

\* verify_fold_and_batch once more, on the verifier the first call left
VerifyAgain ==
    /\ pc = "verified" /\ args.fn = "reuse"
    /\ run' = [run EXCEPT !.verification =
                  verify_fold_and_batch(run.verification.verifier, args.second)]
    /\ pc' = "verified_again"
    /\ UNCHANGED <<serialVars, pureVars>>

\* verify_batched_fri called on the verifier the first call left
BatchedFriAgain ==
    /\ pc = "verified" /\ args.fn = "reuse"
    /\ \A i \in 1..Len(args.second.worker_layer_commitments) :
           Len(args.second.worker_layer_commitments[i]) > 0
    /\ run' = [run EXCEPT !.frame =
                  verify_batched_fri(run.verification.verifier,
                                     reconstructed_batched_fri_proof(args.second),
                                     args.second.worker_layer_commitments)]
    /\ pc' = "batched_fri_again"
    /\ UNCHANGED <<serialVars, pureVars>>

NextReuse ==
    \/ CallWriteInto \/ CallReadFrom
    \/ VerifyPrepare \/ VerifyBatchedFri \/ VerifyFoldingProofs
    \/ VerifyAgain \/ BatchedFriAgain

SpecReuse == InitReuse /\ [][NextReuse]_vars

\* C12 (as claimed): a call on a verifier that has already completed or
\* failed a verification, or has already absorbed commitments, never
\* returns Ok.
C12_SecondCallNeverOk ==
    /\ pc = "verified_again" => run.verification.outcome # Ok
    /\ pc = "batched_fri_again" => run.frame.outcome # Ok

(***************************************************************************)
(* Specification of one FoldingProver: build_layers and build_proof called *)
(* in any order on the same instance.                                      *)
(***************************************************************************)
MaxCalls == 3

\* blowup factor, folding factor, worker domain size, last_poly_max_degree
ProverParams ==
    {<<2, 2, 8, 1>>, <<2, 2, 8, 3>>, <<2, 2, 16, 1>>, <<2, 2, 16, 3>>,
     <<2, 4, 16, 1>>, <<2, 4, 16, 3>>, <<2, 8, 8, 3>>, <<2, 16, 16, 7>>}

ProverPositions == {<<0>>, <<1, 5>>, <<0, 3, 7>>}

FoldingProverRun(params, seed, positions) ==
    [phase |-> "folding_prover",
     prover |-> FoldingProver_new(
                    FoldingOptions_new(params[1], params[2], params[3], params[4]).value),
     input |-> build_evaluations_from_random_poly(seed, params[3] \div params[1], params[1]),
     positions |-> positions,
     calls |-> <<>>]

InitFoldingProver ==
    /\ pc = "new"
    /\ \E params \in ProverParams, seed \in PolySeeds, positions \in ProverPositions :
           run = FoldingProverRun(params, seed, positions)
    /\ args = [fn |-> "none"] /\ ret = Returned(<<>>)
    /\ proof = NoProof /\ bytes = <<>> /\ parsed = NotRead /\ sized = NotSized

\* the prover after a call of build_layers: an abort leaves it as it was
prover_after_build_layers(prover, returned) ==
    IF returned.panic THEN prover ELSE [prover EXCEPT !.layers = returned.value.layers]

CallBuildLayers ==
    /\ Len(run.calls) < MaxCalls
    /\ ret' = FoldingProver_build_layers(run.prover, ProverChannel_new, run.input)
    /\ run' = [run EXCEPT
                  !.prover = prover_after_build_layers(@,
                      FoldingProver_build_layers(run.prover, ProverChannel_new, run.input)),
                  !.calls = Append(@, "build_layers")]
    /\ pc' = "build_layers"
    /\ UNCHANGED <<args, serialVars>>

\* build_proof emptying the stored layers once the proof is built
ProverClearedByBuildProof(prover) == [prover EXCEPT !.layers = <<>>]

\* the prover after a call of build_proof: the stored layers are only read
prover_after_build_proof(prover) == prover

CallBuildProof ==
    /\ Len(run.calls) < MaxCalls
    /\ ret' = FoldingProver_build_proof(run.prover, run.input, run.positions)
    /\ run' = [run EXCEPT !.prover = prover_after_build_proof(@),
                          !.calls = Append(@, "build_proof")]
    /\ pc' = "build_proof"
    /\ UNCHANGED <<args, serialVars>>

NextFoldingProver == CallBuildLayers \/ CallBuildProof

SpecFoldingProver == InitFoldingProver /\ [][NextFoldingProver]_vars

\* the calls of build_layers made before the last call
earlier_build_layers == {k \in 1..(Len(run.calls) - 1) : run.calls[k] = "build_layers"}

\* C13: build_layers succeeds only while no layers are stored; the second
\* build_layers on an instance aborts, also after build_proof, and an abort
\* leaves the stored layers unchanged.
C13_BuildLayersOnce ==
    /\ [](pc = "build_layers" =>
             /\ ~ret.panic <=> earlier_build_layers = {}
             /\ ~ret.panic => run.prover.layers = ret.value.layers /\ Len(ret.value.layers) > 0)
    /\ [][(pc' = "build_layers" /\ Len(run.prover.layers) > 0) =>
              (ret'.panic /\ run'.prover = run.prover)]_vars
    /\ [][pc' = "build_proof" => run'.prover = run.prover]_vars

\* build_layers, build_proof, then build_layers again, which aborts
C13_Witness ==
    /\ pc = "build_layers" /\ run.calls = <<"build_layers", "build_proof", "build_layers">>
    /\ ret.panic /\ Len(run.prover.layers) > 0


(***************************************************************************)
(* Specification of one BatchedFriProver: build_proof and                  *)
(* prove_fold_and_batch called in any order on the same instance, every    *)
(* call with new worker nodes.                                             *)
(***************************************************************************)
\* a call: the locals when it ended and what it returned
Called(r, returned) == [locals |-> r, returned |-> returned]

run_on(r, prover) == [r EXCEPT !.master_prover = prover]

\* build_proof, step 1
function_layers_built(r) ==
    [r EXCEPT !.master_prover =
        build_function_layers(@, r.inputs, 1, r.setup.options.folding_factor)]

\* FriProver::build_layers aborts on the FriProver of the master
build_layers_aborts(r) ==
    FriProver_build_layers(r.master_prover.fri_prover, r.master_prover.channel,
                           r.batched_evaluations).panic

\* build_proof, steps 3 to 5
build_proof_from(r) ==
    IF build_layers_aborts(r) THEN Called(r, Panicked)
    ELSE Called(positions_drawn(layers_built(r), r.setup.domain_size),
                Returned(batched_fri_proof_of(
                    positions_drawn(layers_built(r), r.setup.domain_size))))

\* the parameters of build_proof on the worker domain of a setup
batched_setup_of(setup) ==
    BatchedSetup(setup.lde_blowup, setup.folding_factor, setup.worker_degree_bound,
                 setup.master_options.remainder_max_degree, setup.num_queries)

\* build_proof on a prover whose FriProver was reset before the call
BuildProofAfterReset(prover, setup, inputs) ==
    build_proof_from(
        challenge_drawn(
            function_layers_built(
                run_on(BatchedFriRun(batched_setup_of(setup), inputs),
                       [prover EXCEPT !.fri_prover = FriProver_new(@.options)])),
            inputs))

\* BatchedFriProver::build_proof on the prover as the earlier calls left it
BatchedFriProver_build_proof(prover, setup, inputs) ==
    build_proof_from(
        challenge_drawn(
            function_layers_built(
                run_on(BatchedFriRun(batched_setup_of(setup), inputs), prover)),
            inputs))

\* prove_fold_and_batch, steps 5 to 8
prove_fold_and_batch_from(r) ==
    IF build_layers_aborts(r) THEN Called(r, Panicked)
    ELSE Called(workers_queried(
                    positions_drawn(layers_built(r), r.setup.worker_domain_size), 1),
                Returned(fold_and_batch_master_query(
                    workers_queried(
                        positions_drawn(layers_built(r), r.setup.worker_domain_size),
                        1))))

\* BatchedFriProver::prove_fold_and_batch on the prover as the earlier calls
\* left it, with worker nodes that have built nothing
prove_fold_and_batch(prover, setup, inputs) ==
    prove_fold_and_batch_from(
        inputs_batched(
            last_commitments_pushed(
                workers_committed(run_on(FoldAndBatchRun(setup, inputs), prover), 1))))

BatchedProverRun(setup, inputs) ==
    [phase |-> "batched_prover", setup |-> setup, inputs |-> inputs,
     prover |-> BatchedFriProver_new(setup.master_options), calls |-> <<>>]

InitBatchedProver ==
    /\ pc = "new"
    /\ \E setup \in Setups :
           \E inputs \in InputsOf(setup.worker_degree_bound, setup.lde_blowup) :
               run = BatchedProverRun(setup, inputs)
    /\ args = [fn |-> "none"] /\ ret = Returned(<<>>)
    /\ proof = NoProof /\ bytes = <<>> /\ parsed = NotRead /\ sized = NotSized

CallBatchedBuildProof ==
    /\ Len(run.calls) < MaxCalls
    /\ ret' = BatchedFriProver_build_proof(run.prover, run.setup, run.inputs).returned
    /\ run' = [run EXCEPT
                  !.prover = BatchedFriProver_build_proof(run.prover, run.setup,
                                 run.inputs).locals.master_prover,
                  !.calls = Append(@, "build_proof")]
    /\ pc' = "build_proof"
    /\ UNCHANGED <<args, serialVars>>

CallProveFoldAndBatch ==
    /\ Len(run.calls) < MaxCalls
    /\ ret' = prove_fold_and_batch(run.prover, run.setup, run.inputs).returned
    /\ run' = [run EXCEPT
                  !.prover = prove_fold_and_batch(run.prover, run.setup,
                                 run.inputs).locals.master_prover,
                  !.calls = Append(@, "prove_fold_and_batch")]
    /\ pc' = "prove_fold_and_batch"
    /\ UNCHANGED <<args, serialVars>>

NextBatchedProver == CallBatchedBuildProof \/ CallProveFoldAndBatch

SpecBatchedProver == InitBatchedProver /\ [][NextBatchedProver]_vars

\* what the last call returns on a prover that was never used
returned_by_new_prover ==
    IF pc = "build_proof"
    THEN BatchedFriProver_build_proof(BatchedFriProver_new(run.setup.master_options),
                                      run.setup, run.inputs).returned
    ELSE prove_fold_and_batch(BatchedFriProver_new(run.setup.master_options),
                              run.setup, run.inputs).returned

MaxDomainSize == 32
MaxLastDegree == 3
MaxK == 7

OptionBlowups == {1, 2, 3, 4}
OptionFoldingFactors == {1, 2, 3, 4, 8, 16}

\* the locals of num_fri_layers before its loop
num_fri_layers_locals(options) ==
    [result |-> 0,
     max_last_eval_vector_size |->
         next_power_of_two(options.last_poly_max_degree + 1) * options.blowup_factor,
     current_domain_size |-> options.domain_size]

loop_condition(locals) == locals.current_domain_size > locals.max_last_eval_vector_size

loop_body(locals, options) ==
    [locals EXCEPT !.current_domain_size = @ \div options.folding_factor,
                   !.result = @ + 1]

\* num_fri_layers returning the number of foldings
ReturnedFoldingsOnly(locals) == locals.result

\* the number of layers is the number of foldings plus one
num_fri_layers_returned(locals) == locals.result + 1

InitOptions ==
    /\ pc = "new"
    /\ \E blowup_factor \in OptionBlowups, folding_factor \in OptionFoldingFactors,
          domain_size \in 0..MaxDomainSize, last_poly_max_degree \in 0..MaxLastDegree :
           args = [fn |-> "FoldingOptions::new", blowup_factor |-> blowup_factor,
                   folding_factor |-> folding_factor, domain_size |-> domain_size,
                   last_poly_max_degree |-> last_poly_max_degree]
    /\ run = [phase |-> "options"] /\ ret = Returned(<<>>)
    /\ proof = NoProof /\ bytes = <<>> /\ parsed = NotRead /\ sized = NotSized

CallFoldingOptionsNew ==
    /\ pc = "new"
    /\ ret' = FoldingOptions_new(args.blowup_factor, args.folding_factor,
                                 args.domain_size, args.last_poly_max_degree)
    /\ run' = [phase |-> "options",
               options |-> FoldingOptions_new(args.blowup_factor, args.folding_factor,
                               args.domain_size, args.last_poly_max_degree)]
    /\ pc' = IF ret'.panic THEN "rejected" ELSE "constructed"
    /\ UNCHANGED <<args, serialVars>>

CallNumFriLayers ==
    /\ pc = "constructed"
    /\ run' = [phase |-> "num_fri_layers", options |-> run.options.value,
               locals |-> num_fri_layers_locals(run.options.value)]
    /\ pc' = "loop"
    /\ UNCHANGED <<args, ret, serialVars>>

LoopIteration ==
    /\ pc = "loop" /\ loop_condition(run.locals)
    /\ run' = [run EXCEPT !.locals = loop_body(@, run.options)]
    /\ UNCHANGED <<pc, args, ret, serialVars>>

LoopExit ==
    /\ pc = "loop" /\ ~loop_condition(run.locals)
    /\ ret' = Returned(num_fri_layers_returned(run.locals))
    /\ pc' = "returned"
    /\ UNCHANGED <<run, args, serialVars>>

NextOptions == CallFoldingOptionsNew \/ CallNumFriLayers \/ LoopIteration \/ LoopExit

\* a call that was made runs until it returns or aborts
SpecOptions == InitOptions /\ [][NextOptions]_vars /\ WF_vars(NextOptions)

RECURSIVE IntPow(_, _)
IntPow(b, e) == IF e = 0 THEN 1 ELSE b * IntPow(b, e - 1)

\* domain_size / folding_factor^(k-1) <= (last_poly_max_degree+1).next_power_of_two() * blowup
layers_suffice(options, k) ==
    options.domain_size \div IntPow(options.folding_factor, k - 1)
        <= next_power_of_two(options.last_poly_max_degree + 1) * options.blowup_factor

IsSmallestK(options, k) ==
    /\ k \in 1..MaxK /\ layers_suffice(options, k)
    /\ \A j \in 1..(k - 1) : ~layers_suffice(options, j)

\* C15: on every constructed FoldingOptions num_fri_layers leaves its loop
\* and returns the smallest k >= 1 with domain_size / folding_factor^(k-1)
\* at most (last_poly_max_degree+1).next_power_of_two() * blowup_factor; every
\* iteration of the loop makes current_domain_size smaller.
C15_SmallestK ==
    /\ [](pc = "returned" =>
             /\ IsSmallestK(run.options, ret.value)
             /\ ret.value = num_fri_layers(run.options))
    /\ [][(pc = "loop" /\ pc' = "loop") =>
              run'.locals.current_domain_size < run.locals.current_domain_size]_vars
    /\ <>(pc \in {"returned", "rejected"})

\* a domain that is not a power of the folding factor: two foldings of a
\* domain of 25 points by 4 leave 1 point
C15_Witness ==
    /\ pc = "returned" /\ ret.value = 3
    /\ run.options.domain_size = 25 /\ run.options.folding_factor = 4
    /\ run.locals.current_domain_size = 1


\* D_m of the options of a worker
reduced_domain_size(options) ==
    next_power_of_two(options.last_poly_max_degree + 1) * options.blowup_factor

RECURSIVE is_power_of(_, _)
is_power_of(n, N) == n = 1 \/ (n >= N /\ n % N = 0 /\ is_power_of(n \div N, N))

\* a call of build_layers has returned
build_layers_returned == pc = "build_layers" /\ ~ret.panic

\* C16 (as claimed): for every folding factor and every power-of-two worker
\* domain D_w >= D_m, build_layers produces num_fri_layers() layer
\* commitments and returns a vector of length exactly D_m.
C16_ReducedLengthIsMasterDomain ==
    build_layers_returned =>
        /\ Len(ret.value.channel.layer_commitments) = num_fri_layers(run.prover.options)
        /\ Len(ret.value.last_eval_vector) = reduced_domain_size(run.prover.options)

\* what build_layers does: it produces L_w = num_fri_layers() layers and
\* layer commitments and returns a vector of length D_w / N^(L_w - 1); that
\* length is D_m exactly when D_w / D_m is a power of the folding factor N,
\* and is below D_m otherwise.
ReducedLengthIsQuotient ==
    build_layers_returned =>
        /\ Len(ret.value.channel.layer_commitments) = num_fri_layers(run.prover.options)
        /\ Len(ret.value.layers) = num_fri_layers(run.prover.options)
        /\ Len(ret.value.last_eval_vector) =
               run.prover.options.domain_size
                   \div IntPow(run.prover.options.folding_factor,
                               num_fri_layers(run.prover.options) - 1)
        /\ Len(ret.value.last_eval_vector) <= reduced_domain_size(run.prover.options)
        /\ Len(ret.value.last_eval_vector) = reduced_domain_size(run.prover.options)
               <=> is_power_of(run.prover.options.domain_size
                                   \div reduced_domain_size(run.prover.options),
                               run.prover.options.folding_factor)


\* the commitment to an evaluation vector as a layer commits to it
committed_as_layer(evaluations, N) ==
    build_layer_commitment(transpose_slice(evaluations, N)).commitment

\* C17: the vector build_layers returns is the input of the last layer: the
\* last layer commitment sent to the channel commits to it and the last stored
\* layer holds it (transposed); what is left after the projection of the last
\* layer is neither stored in the prover nor part of the folding proof.
C17_LastLayerCommitsToReturned ==
    /\ build_layers_returned =>
           /\ Len(ret.value.channel.layer_commitments) = Len(ret.value.layers)
           /\ ret.value.channel.layer_commitments[Len(ret.value.layers)] =
                  committed_as_layer(ret.value.last_eval_vector,
                                     run.prover.options.folding_factor)
           /\ ret.value.layers[Len(ret.value.layers)].evaluations =
                  flatten_vector_elements(
                      transpose_slice(ret.value.last_eval_vector,
                                      run.prover.options.folding_factor))
           /\ ret.value.evaluations =
                  apply_drp(ret.value.last_eval_vector, GENERATOR,
                            ret.value.channel.public_coin.log[
                                Len(ret.value.channel.public_coin.log)].v,
                            run.prover.options.folding_factor)
           /\ DOMAIN run.prover = {"options", "layers"}
    /\ (pc = "build_proof" /\ ~ret.panic) =>
           /\ DOMAIN ret.value = {"folding_proof", "evaluation_vector"}
           /\ DOMAIN ret.value.folding_proof = {"folding_proof"}
           /\ Len(ret.value.folding_proof.folding_proof) = Len(run.prover.layers)

\* three layers over 16 points: the returned vector is the 4 points of the
\* third layer and differs from what the projection of that layer leaves
C17_Witness ==
    /\ build_layers_returned /\ Len(ret.value.layers) = 3
    /\ Len(ret.value.last_eval_vector) = 4
    /\ ret.value.evaluations # ret.value.last_eval_vector
    /\ ret.value.channel.layer_commitments[3] =
           committed_as_layer(ret.value.last_eval_vector, 2)


\* worker i was queried at the positions: its evaluations are those of its
\* input at the positions, before any folding, and its first layer is opened
\* at the positions folded once
worker_queried_at(r, i, positions) ==
    /\ Len(r.worker_evaluations[i]) = Len(positions)
    /\ \A t \in 1..Len(positions) :
           r.worker_evaluations[i][t] = r.inputs[i][positions[t] + 1]
    /\ r.folding_proofs[i].folding_proof[1] =
           prover_query_layer(r.worker_nodes[i].layers[1],
               fold_positions(positions, r.setup.worker_domain_size,
                              r.setup.folding_factor),
               r.setup.folding_factor)

\* C18: every worker is queried with the same list, the query positions of
\* the master over the worker domain, and build_proof returns as its second
\* component the input at those positions, one element per position.
C18_WorkersQueriedAtSamePositions ==
    (run.setup \in Setups /\ Len(run.folding_proofs) > 0) =>
        /\ Len(run.worker_evaluations) = Len(run.folding_proofs)
        /\ \A i \in 1..Len(run.folding_proofs) :
               worker_queried_at(run, i, run.query_positions)

\* two workers queried at a position that folding changes
C18_Witness ==
    /\ pc = "master_query" /\ Len(run.folding_proofs) = 2
    /\ \E t \in 1..Len(run.query_positions) :
           /\ run.query_positions[t] >= run.setup.worker_domain_size \div 2
           /\ run.worker_evaluations[2][t] = run.inputs[2][run.query_positions[t] + 1]
           /\ run.worker_evaluations[2][t] #
                  run.inputs[2][run.query_positions[t]
                                    - run.setup.worker_domain_size \div 2 + 1]


\* strictly ascending, hence duplicate-free, and within [0, domain_size)
ascending_within(positions, domain_size) ==
    /\ \A t \in 1..Len(positions) : positions[t] \in 0..(domain_size - 1)
    /\ \A t \in 1..(Len(positions) - 1) : positions[t] < positions[t + 1]

\* the verifier of Fold-and-Batch has drawn its positions
verifier_drew_positions ==
    /\ pc \in {"batched_fri_verified", "verified"}
    /\ run.verification.outcome \notin {Panic("expect on an empty commitment vector")}
    /\ Len(run.verification.function_commitments) > 0

\* the lists of the prover and of the verifier are ascending, duplicate-free
\* and within the domain they are drawn from, in Fold-and-Batch and in
\* standalone batched FRI
PositionListsAscending ==
    /\ run.setup \in Setups =>
           /\ ascending_within(run.query_positions, run.setup.worker_domain_size)
           /\ verifier_drew_positions =>
                  ascending_within(run.verification.worker_query_positions,
                                   run.setup.worker_domain_size)
    /\ run.setup \in BatchedSetups =>
           /\ ascending_within(run.query_positions, run.setup.domain_size)
           /\ ascending_within(run.frame.query_positions, run.setup.domain_size)
           /\ pc = "batched_verified" => run.frame.query_positions = run.query_positions

\* C19: in Fold-and-Batch the prover's query position list is strictly
\* ascending, duplicate-free and within [0, D_w) when the workers and the
\* master open, and the verifier of the honest proof holds the identical
\* list after its own draw, sort and dedup.
C19_VerifierHoldsProverPositions ==
    run.setup \in Setups =>
        /\ ascending_within(run.query_positions, run.setup.worker_domain_size)
        /\ Len(run.folding_proofs) > 0 => Len(run.query_positions) > 0
        /\ verifier_drew_positions =>
               run.verification.worker_query_positions = run.query_positions


(***************************************************************************)
(* Specification of verify_batching: one call per behaviour on the rows    *)
(* opened for zero, one or two polynomials and a claimed batched vector.   *)
(***************************************************************************)
\* the vector the claim names: entry t is the sum over i of
\* challenge^i * v_i[positions[t]]
batching_of(vectors, positions, challenge) ==
    [t \in 1..Len(positions) |-> PowerSum(vectors, positions[t] + 1, challenge, 1)]

\* the vector itself, with one entry changed, one entry short, one entry long
claimed_variants(expected) ==
    {expected, Append(expected, ZERO)}
    \cup (IF Len(expected) = 0 THEN {}
          ELSE {[expected EXCEPT ![1] = FAdd(@, ONE)],
                SubSeq(expected, 1, Len(expected) - 1)})

VerifyBatchingArgs ==
    UNION {UNION {
        {[fn |-> "verify_batching", positions |-> ps, domain_size |-> D,
          folding_factor |-> 2, challenge |-> a,
          vectors |-> [i \in 1..m |-> SampleVector(D, i + 1)],
          batched_evaluations |-> claimed] :
            claimed \in claimed_variants(
                batching_of([i \in 1..m |-> SampleVector(D, i + 1)], ps, a))}
        : ps \in {qs \in SeqsUpTo(0..(D - 1), MaxPositions) : ascending_within(qs, D)},
          m \in 0..MaxPoly, a \in Challenges} : D \in HelperDomains}

InitVerifyBatching ==
    /\ pc = "call"
    /\ args \in VerifyBatchingArgs
    /\ ret = Running
    /\ run = NoRun
    /\ proof = NoProof /\ bytes = <<>> /\ parsed = NotRead /\ sized = NotSized

CallVerifyBatching ==
    /\ pc = "call" /\ args.fn = "verify_batching"
    /\ ret' = verify_batching(args.positions, args.batched_evaluations,
                              queried_values_of(args), args.challenge,
                              args.domain_size, args.folding_factor)
    /\ pc' = "returned"
    /\ UNCHANGED <<args, serialVars, run>>

NextVerifyBatching == CallVerifyBatching

SpecVerifyBatching == InitVerifyBatching /\ [][NextVerifyBatching]_vars

\* what the claim requires of a call of verify_batching
err_exactly_on_mismatch ==
    IF args.batched_evaluations #
           batching_of(args.vectors, args.positions, args.challenge)
    THEN ret = Err("InvalidPolynomialBatching")
    ELSE ret = Ok

\* C20: verify_batching returns Err(InvalidPolynomialBatching) exactly when
\* the claimed batched evaluations differ, in an entry or in length, from
\* the vector of the sums over i of alpha^i * v_i[p], and Ok otherwise.
C20_ErrExactlyOnMismatch ==
    pc = "returned" => err_exactly_on_mismatch

\* the verifier of Fold-and-Batch on the proof of a master that batched
\* nothing: every stage up to the check of the batching succeeds, and
\* verify_batching aborts
ZeroWorkerProofAborts ==
    (pc = "verified" /\ proof = ZeroWorkerProof(run.setup)) =>
        /\ parsed.ok /\ parsed.val = proof
        /\ run.verification.outcome = Panic("assert in combine_poly_evaluations")
        /\ frame_at("check_opening_proofs").outcome = Running

\* a call of verify_batching on the rows of at least one polynomial returns,
\* and returns as the claim requires; a call on no rows aborts
VerifyBatchingOfSomePolynomial ==
    pc = "returned" =>
        IF Len(args.vectors) > 0 THEN err_exactly_on_mismatch
        ELSE ret = Panic("assert in combine_poly_evaluations")

(***************************************************************************)
(* Specification of verify_opening_proofs: one call per behaviour on the   *)
(* commitments, opened rows and opening proofs of one or two polynomials,  *)
(* as the prover made them or with one of them changed.                    *)
(***************************************************************************)
OpeningFoldingFactors == {2, 4}

\* what is changed in the openings of an honest prover, and of which
\* polynomial
OpeningChanges == {"none", "value", "leaf", "commitment", "exchanged", "dropped"}

function_layers_of(vectors, N) ==
    [i \in 1..Len(vectors) |->
        function_layer_of(build_layer_commitment(transpose_slice(vectors[i], N)),
                          vectors[i], N)]

\* the commitments, rows and opening proofs the verifier holds after
\* parse_batching_proofs for the openings of an honest prover
honest_openings(vectors, positions, domain_size, N) ==
    [function_commitments |->
         [i \in 1..Len(vectors) |-> function_layers_of(vectors, N)[i].commitment.commitment],
     queried_values |->
         [i \in 1..Len(vectors) |->
             opened_rows(vectors[i], fold_positions(positions, domain_size, N), N)],
     opening_proofs |->
         [i \in 1..Len(vectors) |->
             open_many(function_layers_of(vectors, N)[i].commitment,
                       fold_positions(positions, domain_size, N)).value]]

changed_openings(o, change, i) ==
    CASE change = "none" -> o
      [] change = "value" ->
            [o EXCEPT !.queried_values[i][1] = FAdd(@, ONE)]
      [] change = "leaf" ->
            [o EXCEPT !.opening_proofs[i][1] = (@ + 1) % HashModulus]
      [] change = "commitment" ->
            [o EXCEPT !.function_commitments[i] = (@ + 1) % HashModulus]
      [] change = "exchanged" ->
            [o EXCEPT !.opening_proofs =
                [k \in 1..Len(o.opening_proofs) |->
                    o.opening_proofs[Len(o.opening_proofs) + 1 - k]]]
      [] change = "dropped" ->
            [o EXCEPT !.opening_proofs = SubSeq(@, 1, Len(@) - 1)]

OpeningArgs ==
    UNION {UNION {
        {[fn |-> "verify_opening_proofs", positions |-> ps, domain_size |-> D,
          folding_factor |-> N, change |-> c, changed |-> i,
          vectors |-> [k \in 1..m |-> SampleVector(D, k + 1)],
          openings |->
              changed_openings(
                  honest_openings([k \in 1..m |-> SampleVector(D, k + 1)], ps, D, N),
                  c, i)] :
            c \in OpeningChanges, i \in 1..m}
        : ps \in {qs \in SeqsUpTo(0..(D - 1), MaxPositions) :
                     Len(qs) > 0 /\ ascending_within(qs, D)},
          m \in 1..MaxPoly, N \in OpeningFoldingFactors} : D \in HelperDomains}

InitOpenings ==
    /\ pc = "call"
    /\ args \in OpeningArgs
    /\ ret = Running
    /\ run = NoRun
    /\ proof = NoProof /\ bytes = <<>> /\ parsed = NotRead /\ sized = NotSized

CallVerifyOpeningProofs ==
    /\ pc = "call" /\ args.fn = "verify_opening_proofs"
    /\ ret' = verify_opening_proofs(args.openings.function_commitments,
                                    args.openings.queried_values,
                                    args.openings.opening_proofs, args.positions,
                                    args.domain_size, args.folding_factor)
    /\ pc' = "returned"
    /\ UNCHANGED <<args, serialVars, run>>

NextOpenings == CallVerifyOpeningProofs

SpecOpenings == InitOpenings /\ [][NextOpenings]_vars

\* as many opening proofs and opened vectors as commitments
one_opening_each(o) ==
    /\ Len(o.function_commitments) = Len(o.queried_values)
    /\ Len(o.queried_values) = Len(o.opening_proofs)

\* the leaves the opening proof i declares at the folded query positions are
\* the hashes of the rows opened for polynomial i, and the opening proof
\* hashes to commitment i
opening_verifies(a, i) ==
    LET folded == fold_positions(a.positions, a.domain_size, a.folding_factor)
        rows == a.openings.queried_values[i]
        N == a.folding_factor
    IN  /\ Hash(a.openings.opening_proofs[i]) = a.openings.function_commitments[i]
        /\ Len(rows) = N * Len(folded)
        /\ \A t \in 1..Len(folded) :
               /\ folded[t] < Len(a.openings.opening_proofs[i])
               /\ a.openings.opening_proofs[i][folded[t] + 1] =
                      hash_elements(SubSeq(rows, (t - 1) * N + 1, t * N))

\* C21: verify_opening_proofs checks commitment i against opening proof i
\* and the rows opened for polynomial i at the folded query positions; it
\* returns Err(LayerCommitmentMismatch) when one of the m openings does not
\* verify and Ok only when all m of them verify.
C21_EveryOpeningChecked ==
    (pc = "returned" /\ one_opening_each(args.openings)) =>
        /\ (\A i \in 1..Len(args.vectors) : opening_verifies(args, i)) => ret = Ok
        /\ (\E i \in 1..Len(args.vectors) : ~opening_verifies(args, i)) =>
               ret = Err("LayerCommitmentMismatch")
        /\ args.change = "none" => ret = Ok

\* two polynomials, the opening of the first as the prover made it and a
\* row of the second changed: the call returns the error
C21_Witness ==
    /\ pc = "returned"
    /\ Len(args.vectors) = 2 /\ args.change = "value" /\ args.changed = 2
    /\ opening_verifies(args, 1) /\ ~opening_verifies(args, 2)
    /\ ret = Err("LayerCommitmentMismatch")

\* with fewer opening proofs than commitments the call aborts
UnequalCountsAbort ==
    (pc = "returned" /\ ~one_opening_each(args.openings)) =>
        ret = Panic("assert_eq in verify_opening_proofs")

\* an opening in which a row, a leaf or the commitment was changed, or
\* which was exchanged with that of another polynomial, is refused
ChangedOpeningRefused ==
    (pc = "returned" /\ args.change \in {"value", "leaf", "commitment"}) =>
        ret = Err("LayerCommitmentMismatch")

(***************************************************************************)
(* Structural checks of FoldAndBatchProof::read_from.                      *)
(***************************************************************************)
\* one folding proof, one evaluation vector and one commitment vector per
\* worker
counts_consistent(P) ==
    /\ Len(P.folding_proofs) = Len(P.worker_layer_commitments)
    /\ Len(P.folding_proofs) = Len(P.worker_evaluations)

\* C22 (as claimed): read_from returns an error for bytes whose counts of
\* folding proofs, worker evaluation vectors and worker commitment vectors
\* are not all equal, so every proof it returns has as many folding proofs
\* as worker commitment vectors.
C22_InconsistentCountsRefused ==
    (pc = "read" /\ parsed.ok) => counts_consistent(parsed.val)

\* the part of the claim about truncated bytes: no proper prefix of the
\* bytes of a proof is read as a proof
TruncatedBytesRefused ==
    (pc = "read" /\ proof # LongEvaluationsProof) =>
        \A n \in 0..(Len(bytes) - 1) :
            ~fold_and_batch_proof_read_from(SubSeq(bytes, 1, n), 1).ok

\* read_from returns whatever counts the bytes declare
ReadKeepsDeclaredCounts ==
    (pc = "read" /\ proof # LongEvaluationsProof) =>
        /\ parsed.ok
        /\ Len(parsed.val.folding_proofs) = Len(proof.folding_proofs)
        /\ Len(parsed.val.worker_evaluations) = Len(proof.worker_evaluations)
        /\ Len(parsed.val.worker_layer_commitments) = Len(proof.worker_layer_commitments)

(***************************************************************************)
(* Specification of the FoldingProof values: one value per behaviour, made *)
(* by FoldingProof::new from a vector of layers or by read_from from       *)
(* bytes, and then asked for its batching proof.                           *)
(***************************************************************************)
FoldingProofLayers ==
    SeqsUpTo({SampleLayer(i, l) : i \in 1..2, l \in 1..2}, MaxLayers)

\* a layer count followed by the bytes of some layers, as many as declared
\* or not
FoldingProofArgs ==
    {[fn |-> "new", layers |-> ls] : ls \in FoldingProofLayers}
    \cup {[fn |-> "read_from", src |-> write_u8(n) \o layers_write_into(ls)] :
             n \in 0..(MaxLayers + 1), ls \in FoldingProofLayers}

NoValue == [phase |-> "none"]
Value(fp) == [phase |-> "value", value |-> fp]

InitFoldingProof ==
    /\ pc = "call"
    /\ args \in FoldingProofArgs
    /\ ret = Returned(<<>>)
    /\ run = NoValue
    /\ proof = NoProof /\ bytes = <<>> /\ parsed = NotRead /\ sized = NotSized

CallFoldingProofNew ==
    /\ pc = "call" /\ args.fn = "new"
    /\ ret' = folding_proof_new(args.layers)
    /\ IF ret'.panic
       THEN pc' = "aborted" /\ run' = run
       ELSE pc' = "constructed" /\ run' = Value(ret'.value)
    /\ UNCHANGED <<args, serialVars>>

CallFoldingProofReadFrom ==
    /\ pc = "call" /\ args.fn = "read_from"
    /\ bytes' = args.src
    /\ parsed' = folding_proof_read_from(args.src, 1)
    /\ IF parsed'.ok
       THEN pc' = "constructed" /\ run' = Value(parsed'.val)
       ELSE pc' = "refused" /\ run' = run
    /\ UNCHANGED <<args, ret, proof, sized>>

\* batching_proof(): folding_proof.last().unwrap()
CallBatchingProof ==
    /\ pc = "constructed"
    /\ ret' = IF Len(run.value.folding_proof) = 0 THEN Panicked
              ELSE Returned(batching_proof(run.value))
    /\ pc' = "queried"
    /\ UNCHANGED <<args, serialVars, run>>

NextFoldingProof ==
    CallFoldingProofNew \/ CallFoldingProofReadFrom \/ CallBatchingProof

SpecFoldingProof == InitFoldingProof /\ [][NextFoldingProof]_vars

\* C23: every FoldingProof value has at least one layer: new aborts on an
\* empty vector and read_from returns an error on a layer count of 0, so
\* batching_proof() returns the last layer of every value.
C23_AtLeastOneLayer ==
    /\ pc \in {"constructed", "queried"} => Len(run.value.folding_proof) >= 1
    /\ pc = "queried" =>
           ret = Returned(run.value.folding_proof[Len(run.value.folding_proof)])
    /\ (pc # "call" /\ args.fn = "new" /\ Len(args.layers) = 0) => pc = "aborted"
    /\ (pc # "call" /\ args.fn = "read_from" /\ args.src[1] = 0) => pc = "refused"
    /\ (pc # "call" /\ args.fn = "new" /\ Len(args.layers) > 0) =>
           run = Value(FoldingProof(args.layers))

\* a value of two layers read from bytes, asked for its batching proof
C23_Witness ==
    /\ pc = "queried" /\ args.fn = "read_from"
    /\ Len(run.value.folding_proof) = 2
    /\ ret = Returned(run.value.folding_proof[2])
    /\ args.src = folding_proof_write_into(run.value)

(***************************************************************************)
(* The byte layout of a FoldAndBatchProof.                                 *)
(***************************************************************************)
\* a count or length n as a little-endian prefix of the given width
LengthPrefix(n, width) ==
    [k \in 1..width |-> (n \div IntPow(U8Range, k - 1)) % U8Range]

\* the layout the documentation gives, field by field
documented_layout(P) ==
    Flatten(<<
        LengthPrefix(Len(P.folding_proofs), 4),
        folding_proofs_write_into(P.folding_proofs),
        fri_proof_write_into(P.fri_proof),
        LengthPrefix(Len(P.worker_evaluations), 4),
        Flatten([i \in 1..Len(P.worker_evaluations) |->
                    LengthPrefix(Len(P.worker_evaluations[i]), 2)
                        \o P.worker_evaluations[i]]),
        LengthPrefix(Len(P.master_evaluations), 2),
        P.master_evaluations,
        LengthPrefix(Len(P.worker_layer_commitments), 4),
        Flatten([i \in 1..Len(P.worker_layer_commitments) |->
                    LengthPrefix(Len(P.worker_layer_commitments[i]), 1)
                        \o write_digests(P.worker_layer_commitments[i])]),
        LengthPrefix(Len(P.master_layer_commitments), 1),
        write_digests(P.master_layer_commitments) >>)

\* every count and length is below the range of its prefix
prefixes_fit(P) ==
    /\ \A i \in 1..Len(P.worker_evaluations) : Len(P.worker_evaluations[i]) < U16Range
    /\ Len(P.master_evaluations) < U16Range
    /\ \A i \in 1..Len(P.worker_layer_commitments) :
           Len(P.worker_layer_commitments[i]) < U8Range
    /\ Len(P.master_layer_commitments) < U8Range

\* C24: write_into emits a u32 count and the folding proofs, the FriProof,
\* a u32 count and per worker a u16 byte length and the evaluation bytes, a
\* u16 byte length and the master evaluation bytes, a u32 count and per
\* worker a u8 count and the digests, a u8 count and the master digests, in
\* this order; read_from consumes the same layout.
C24_DocumentedLayout ==
    /\ pc # "built" => bytes = documented_layout(proof)
    /\ (pc \in {"read", "sized"} /\ prefixes_fit(proof)) =>
           parsed = ReadOk(proof, Len(bytes) + 1)

\* a proof of two workers with two layers and two commitments each, written
\* and read back
C24_Witness ==
    /\ pc = "read"
    /\ Len(proof.folding_proofs) = 2 /\ Len(proof.worker_layer_commitments[2]) = 2
    /\ Len(proof.worker_evaluations[1]) = 2 * ElementBytes
    /\ Len(proof.master_layer_commitments) = 2
    /\ bytes = documented_layout(proof)
    /\ parsed.val = proof

(***************************************************************************)
(* Specification of the verifier on mutated bytes: the proof of an honest  *)
(* prover is written, one byte of it is changed, and the bytes are read    *)
(* and verified.                                                           *)
(***************************************************************************)
\* which bytes of a serialized proof belong to a count or a length (TRUE)
\* and which to a field (FALSE), in the order write_into emits them
prefix_bytes(width) == [k \in 1..width |-> TRUE]
payload_bytes(n) == [k \in 1..n |-> FALSE]

layer_offsets(layer) ==
    prefix_bytes(4) \o payload_bytes(Len(layer.values))
        \o prefix_bytes(4) \o payload_bytes(Len(layer.paths))

layers_offsets(layers) ==
    Flatten([l \in 1..Len(layers) |-> layer_offsets(layers[l])])

fri_proof_offsets(p) ==
    prefix_bytes(1) \o layers_offsets(p.layers) \o payload_bytes(1)
        \o prefix_bytes(4) \o payload_bytes(Len(p.remainder))

folding_proof_offsets(fp) == prefix_bytes(1) \o layers_offsets(fp.folding_proof)

fold_and_batch_proof_offsets(P) ==
    Flatten(<<
        prefix_bytes(4),
        Flatten([i \in 1..Len(P.folding_proofs) |->
                    folding_proof_offsets(P.folding_proofs[i])]),
        fri_proof_offsets(P.fri_proof),
        prefix_bytes(4),
        Flatten([i \in 1..Len(P.worker_evaluations) |->
                    prefix_bytes(2) \o payload_bytes(Len(P.worker_evaluations[i]))]),
        prefix_bytes(2), payload_bytes(Len(P.master_evaluations)),
        prefix_bytes(4),
        Flatten([i \in 1..Len(P.worker_layer_commitments) |->
                    prefix_bytes(1)
                        \o payload_bytes(DigestBytes * Len(P.worker_layer_commitments[i]))]),
        prefix_bytes(1),
        payload_bytes(DigestBytes * Len(P.master_layer_commitments)) >>)

\* the offset (1-based) of num_partitions of the FRI proof
num_partitions_offset(P) ==
    4 + folding_proofs_size(P.folding_proofs) + 1 + layers_size(P.fri_proof.layers) + 1

\* what is added to the byte changed
MutationDeltas == {1, 128}

NotMutated == [fn |-> "none"]

InitMutated ==
    /\ pc = "built"
    /\ \E setup \in Setups :
           /\ run = FoldAndBatchRun(setup, <<>>)
           /\ proof = HonestProof(setup)
    /\ bytes = <<>> /\ parsed = NotRead /\ sized = NotSized
    /\ args = NotMutated /\ ret = Returned(<<>>)

MutateByte ==
    /\ pc = "written" /\ args = NotMutated
    /\ \E offset \in 1..Len(bytes), delta \in MutationDeltas :
           /\ ~fold_and_batch_proof_offsets(proof)[offset]
           /\ bytes' = [bytes EXCEPT ![offset] = (@ + delta) % U8Range]
           /\ args' = [fn |-> "mutated", offset |-> offset, delta |-> delta]
    /\ UNCHANGED <<pc, ret, proof, parsed, sized, run>>

NextMutated ==
    \/ CallWriteInto \/ MutateByte \/ CallReadFrom
    \/ VerifyPrepare \/ VerifyBatchedFri \/ VerifyFoldingProofs

SpecMutated == InitMutated /\ [][NextMutated]_vars

\* the bytes were refused by read_from or the proof by the verifier
returned_err ==
    \/ pc = "read" /\ ~parsed.ok
    \/ pc = "verified" /\ run.verification.outcome.kind = "err"

call_ended == (pc = "read" /\ ~parsed.ok) \/ pc = "verified"

\* C25 (as claimed): after any single byte outside the counts and lengths
\* of the serialized proof of an honest prover is changed,
\* verify_fold_and_batch returns an error.
C25_MutationRejected ==
    (call_ended /\ args.fn = "mutated") => returned_err

\* the offsets cover the bytes written, and the byte at the offset of
\* num_partitions is a field of the FRI proof, not a count or a length
OffsetsOfBytesWritten ==
    (pc = "written" /\ args = NotMutated) =>
        /\ Len(fold_and_batch_proof_offsets(proof)) = Len(bytes)
        /\ ~fold_and_batch_proof_offsets(proof)[num_partitions_offset(proof)]
        /\ bytes[num_partitions_offset(proof)] = proof.fri_proof.num_partitions

\* num_partitions is read and never looked at: with that byte changed the
\* verifier decides as it does on the proof itself
NumPartitionsUnchecked ==
    (args.fn = "mutated" /\ args.offset = num_partitions_offset(proof)) =>
        /\ pc = "read" => parsed.ok
        /\ pc = "verified" =>
               run.verification.outcome =
                   verify_fold_and_batch(fresh_verifier(run.setup), proof).outcome

\* every other changed byte is noticed: the call does not return Ok
OtherMutationsNoticed ==
    (call_ended /\ args.fn = "mutated" /\ args.offset # num_partitions_offset(proof)) =>
        (pc = "verified" => run.verification.outcome.kind # "ok")

\* an accepted proof whose num_partitions was changed is accepted
MutatedProofAccepted ==
    /\ pc = "verified" /\ args.fn = "mutated"
    /\ args.offset = num_partitions_offset(proof)
    /\ verify_fold_and_batch(fresh_verifier(run.setup), proof).outcome = Ok
    /\ run.verification.outcome = Ok

(***************************************************************************)
(* Specification of two prover channels created from the same seed and     *)
(* driven, each at its own pace, through the same sequence of absorbed     *)
(* digests and draws.  A digest may be pushed as a function commitment on  *)
(* one channel and committed as a layer on the other, as the commitments   *)
(* of the workers are.                                                     *)
(***************************************************************************)
\* most operations of a channel
MaxOps == 3

ChannelDigests == {5, 9}
ChannelOps ==
    {[op |-> "absorb", digest |-> d] : d \in ChannelDigests}
    \cup {[op |-> "challenge"], [op |-> "alpha"]}
    \cup {[op |-> "positions", domain_size |-> 8, num_queries |-> MaxQueries,
           nonce |-> n] : n \in {0, 1}}

Sides == {"first", "second"}

InitChannels ==
    /\ pc = "channels"
    /\ \E script \in SeqsUpTo(ChannelOps, MaxOps) :
           run = [script |-> script,
                  channel |-> [s \in Sides |-> ProverChannel_new],
                  answers |-> [s \in Sides |-> <<>>]]
    /\ args = [fn |-> "none"] /\ ret = Returned(<<>>)
    /\ proof = NoProof /\ bytes = <<>> /\ parsed = NotRead /\ sized = NotSized

\* the next operation of the script for the channel of a side
next_op(r, s) == r.script[Len(r.answers[s]) + 1]
has_next_op(r, s) == Len(r.answers[s]) < Len(r.script)

PushFunctionCommitment(s) ==
    /\ has_next_op(run, s) /\ next_op(run, s).op = "absorb"
    /\ run' = [run EXCEPT
                 !.channel[s] = push_function_commitment(@, next_op(run, s).digest),
                 !.answers[s] = Append(@, Returned(<<>>))]
    /\ UNCHANGED <<pc, pureVars, serialVars>>

CommitFriLayer(s) ==
    /\ has_next_op(run, s) /\ next_op(run, s).op = "absorb"
    /\ run' = [run EXCEPT
                 !.channel[s] = commit_fri_layer(@, next_op(run, s).digest),
                 !.answers[s] = Append(@, Returned(<<>>))]
    /\ UNCHANGED <<pc, pureVars, serialVars>>

DrawBatchedFriChallenge(s) ==
    /\ has_next_op(run, s) /\ next_op(run, s).op = "challenge"
    /\ run' = [run EXCEPT
                 !.channel[s] = channel_after_draw(@),
                 !.answers[s] =
                     Append(@, Returned(draw_batched_fri_challange(run.channel[s])))]
    /\ UNCHANGED <<pc, pureVars, serialVars>>

DrawFriAlpha(s) ==
    /\ has_next_op(run, s) /\ next_op(run, s).op = "alpha"
    /\ run' = [run EXCEPT
                 !.channel[s] = channel_after_draw(@),
                 !.answers[s] = Append(@, Returned(draw_fri_alpha(run.channel[s])))]
    /\ UNCHANGED <<pc, pureVars, serialVars>>

DrawQueryPositions(s) ==
    /\ has_next_op(run, s) /\ next_op(run, s).op = "positions"
    /\ run' = [run EXCEPT
                 !.channel[s] =
                     channel_after_draw_query_positions(@, next_op(run, s).domain_size,
                         next_op(run, s).num_queries, next_op(run, s).nonce),
                 !.answers[s] =
                     Append(@, draw_query_positions(run.channel[s],
                                   next_op(run, s).domain_size,
                                   next_op(run, s).num_queries, next_op(run, s).nonce))]
    /\ UNCHANGED <<pc, pureVars, serialVars>>

NextChannels ==
    \E s \in Sides :
        \/ PushFunctionCommitment(s) \/ CommitFriLayer(s)
        \/ DrawBatchedFriChallenge(s) \/ DrawFriAlpha(s) \/ DrawQueryPositions(s)

SpecChannels == InitChannels /\ [][NextChannels]_vars

\* the common prefix of the answers of the two channels
answered_by_both ==
    1..min(Len(run.answers["first"]), Len(run.answers["second"]))

\* C26: two channels created from the same seed that absorbed the same
\* digests in the same order and were asked the same draws with the same
\* nonce returned identical batching challenges, identical FRI alphas and
\* identical query positions.
C26_SameTranscriptSameDraws ==
    /\ \A k \in answered_by_both :
           run.answers["first"][k] = run.answers["second"][k]
    /\ Len(run.answers["first"]) = Len(run.answers["second"]) =>
           run.channel["first"].public_coin = run.channel["second"].public_coin

\* both channels absorbed a digest, one as a function commitment and the
\* other as a layer commitment, and then returned the same challenge and
\* the same positions
C26_Witness ==
    /\ Len(run.script) = 3 /\ run.script[1].op = "absorb"
    /\ run.script[2].op = "challenge" /\ run.script[3].op = "positions"
    /\ Len(run.answers["first"]) = 3 /\ Len(run.answers["second"]) = 3
    /\ Len(run.channel["first"].function_commitments) = 1
    /\ Len(run.channel["second"].layer_commitments) = 1
    /\ run.answers["first"][2] = run.answers["second"][2]
    /\ run.answers["first"][3] = run.answers["second"][3]
    /\ Len(run.answers["first"][3].value) = MaxQueries

\* the draws depend on what was absorbed: after different digests the
\* challenges differ
DrawsDependOnAbsorbed ==
    \A d \in ChannelDigests, e \in ChannelDigests :
        d # e =>
            draw_batched_fri_challange(push_function_commitment(ProverChannel_new, d))
                # draw_batched_fri_challange(push_function_commitment(ProverChannel_new, e))

(***************************************************************************)
(* Specification of the workers run concurrently: every worker has its own *)
(* FoldingProver and its own channel, builds its layers one at a time and  *)
(* answers the common query positions, the steps of the workers            *)
(* interleaved in any order.                                               *)
(***************************************************************************)
\* the shared-channel variant: a worker continues on the channel of the
\* worker before it
WorkerChannelShared(r, w) ==
    IF w = 1 \/ r.worker[w - 1].phase = "idle" THEN ProverChannel_new
    ELSE r.worker[w - 1].building.channel

\* the channel made for worker w: DefaultProverChannel::new
worker_channel(r, w) == ProverChannel_new

IdleWorker(options) ==
    [phase |-> "idle", prover |-> FoldingProver_new(options), i |-> 0,
     building |-> Building(<<>>, ProverChannel_new, <<>>),
     layer_commitments |-> <<>>, last_eval_vector |-> <<>>,
     folding_proof |-> FoldingProof(<<>>), evaluation_vector |-> <<>>]

WorkerSetups == {setup \in Setups : setup.num_queries = 1}

InitWorkers ==
    /\ pc = "workers"
    /\ \E setup \in WorkerSetups, positions \in ProverPositions :
           \E inputs \in InputsOf(setup.worker_degree_bound, setup.lde_blowup) :
               run = [setup |-> setup, inputs |-> inputs, positions |-> positions,
                      worker |-> [w \in 1..Len(inputs) |->
                                     IdleWorker(worker_options(setup))]]
    /\ args = [fn |-> "none"] /\ ret = Returned(<<>>)
    /\ proof = NoProof /\ bytes = <<>> /\ parsed = NotRead /\ sized = NotSized

\* build_layers is entered with a fresh channel and the worker's input
WorkerEntersBuildLayers(w) ==
    /\ run.worker[w].phase = "idle"
    /\ Len(run.worker[w].prover.layers) = 0
    /\ run' = [run EXCEPT
                 !.worker[w].phase = "committing",
                 !.worker[w].building =
                     Building(<<>>, worker_channel(run, w), run.inputs[w])]
    /\ UNCHANGED <<pc, pureVars, serialVars>>

\* one iteration of the loop of build_layers
WorkerBuildsLayer(w) ==
    /\ run.worker[w].phase = "committing"
    /\ run.worker[w].i < num_fri_layers(run.worker[w].prover.options)
    /\ run' = [run EXCEPT
                 !.worker[w].building =
                     build_layer(
                         record_last_eval_vector(@, run.worker[w].i,
                             num_fri_layers(run.worker[w].prover.options)),
                         run.worker[w].prover.options.folding_factor),
                 !.worker[w].i = @ + 1]
    /\ UNCHANGED <<pc, pureVars, serialVars>>

\* build_layers returns: the worker's commitments and last evaluation vector
WorkerLeavesBuildLayers(w) ==
    /\ run.worker[w].phase = "committing"
    /\ run.worker[w].i >= num_fri_layers(run.worker[w].prover.options)
    /\ run' = [run EXCEPT
                 !.worker[w].phase = "committed",
                 !.worker[w].prover.layers = run.worker[w].building.layers,
                 !.worker[w].layer_commitments =
                     run.worker[w].building.channel.layer_commitments,
                 !.worker[w].last_eval_vector =
                     run.worker[w].building.last_eval_vector]
    /\ UNCHANGED <<pc, pureVars, serialVars>>

\* the query phase of the worker at the common positions
WorkerBuildsProof(w) ==
    /\ run.worker[w].phase = "committed"
    /\ run' = [run EXCEPT
                 !.worker[w].phase = "queried",
                 !.worker[w].folding_proof =
                     FoldingProver_build_proof(run.worker[w].prover, run.inputs[w],
                                               run.positions).value.folding_proof,
                 !.worker[w].evaluation_vector =
                     FoldingProver_build_proof(run.worker[w].prover, run.inputs[w],
                                               run.positions).value.evaluation_vector]
    /\ UNCHANGED <<pc, pureVars, serialVars>>

NextWorkers ==
    \E w \in 1..Len(run.inputs) :
        \/ WorkerEntersBuildLayers(w) \/ WorkerBuildsLayer(w)
        \/ WorkerLeavesBuildLayers(w) \/ WorkerBuildsProof(w)

SpecWorkers == InitWorkers /\ [][NextWorkers]_vars

\* what a worker with this input produces when it runs alone
committed_alone(setup, input) ==
    FoldingProver_build_layers(FoldingProver_new(worker_options(setup)),
                               ProverChannel_new, input).value
queried_alone(setup, input, positions) ==
    FoldingProver_build_proof(
        [options |-> worker_options(setup),
         layers |-> committed_alone(setup, input).layers],
        input, positions).value

\* C27: whatever the order and interleaving of the workers' steps, the
\* layer commitments and the last evaluation vector of worker i are those it
\* produces alone from its own input, whatever the inputs of the other
\* workers; the same holds for its folding proof and queried evaluations at
\* the common positions.
C27_WorkersIndependent ==
    \A w \in 1..Len(run.inputs) :
        /\ run.worker[w].phase \in {"committed", "queried"} =>
               /\ run.worker[w].layer_commitments =
                      committed_alone(run.setup, run.inputs[w]).channel.layer_commitments
               /\ run.worker[w].last_eval_vector =
                      committed_alone(run.setup, run.inputs[w]).last_eval_vector
        /\ run.worker[w].phase = "queried" =>
               /\ run.worker[w].folding_proof =
                      queried_alone(run.setup, run.inputs[w], run.positions).folding_proof
               /\ run.worker[w].evaluation_vector =
                      queried_alone(run.setup, run.inputs[w],
                                    run.positions).evaluation_vector

\* two workers with different inputs and two layers each: the second has
\* committed and answered while the first is in the middle of its commit
\* phase
C27_Witness ==
    /\ Len(run.inputs) = 2 /\ run.inputs[1] # run.inputs[2]
    /\ run.worker[1].phase = "committing" /\ run.worker[1].i = 1
    /\ run.worker[2].phase = "queried"
    /\ Len(run.worker[2].layer_commitments) = 2
    /\ Len(run.worker[2].folding_proof.folding_proof) = 2
    /\ run.worker[2].layer_commitments # <<>>
    /\ run.worker[2].last_eval_vector =
           committed_alone(run.setup, run.inputs[2]).last_eval_vector

(***************************************************************************)
(* Specification of FoldAndBatchVerifier::new followed by                  *)
(* num_worker_folding, its loop taken one iteration at a time.             *)
(***************************************************************************)
\* largest degree bound handed to FoldAndBatchVerifier::new
MaxDegreeBound == 16

VerifierBlowups == {1, 2, 4}

\* the locals of num_worker_folding before its loop
num_worker_folding_locals(verifier) ==
    [result |-> 0, current_domain_size |-> verifier.worker_domain_size]

worker_folding_condition(locals, verifier) ==
    locals.current_domain_size > verifier.master_domain_size

worker_folding_body(locals, verifier) ==
    [locals EXCEPT !.current_domain_size = @ \div verifier.options.folding_factor,
                   !.result = @ + 1]

InitVerifierNew ==
    /\ pc = "new"
    /\ \E blowup_factor \in VerifierBlowups, folding_factor \in FoldingFactors,
          worker_degree_bound \in 0..MaxDegreeBound,
          master_degree_bound \in 0..MaxDegreeBound :
           args = [fn |-> "FoldAndBatchVerifier::new",
                   options |-> FriOptions(blowup_factor, folding_factor, 0),
                   worker_degree_bound |-> worker_degree_bound,
                   master_degree_bound |-> master_degree_bound]
    /\ run = [phase |-> "verifier"] /\ ret = Returned(<<>>)
    /\ proof = NoProof /\ bytes = <<>> /\ parsed = NotRead /\ sized = NotSized

CallFoldAndBatchVerifierNew ==
    /\ pc = "new"
    /\ ret' = FoldAndBatchVerifier_new(RandomCoin_new, 1, args.options,
                                       args.worker_degree_bound, args.master_degree_bound)
    /\ run' = IF ret'.panic THEN run
              ELSE [phase |-> "constructed", verifier |-> ret'.value,
                    locals |-> num_worker_folding_locals(ret'.value)]
    /\ pc' = IF ret'.panic THEN "aborted" ELSE "constructed"
    /\ UNCHANGED <<args, serialVars>>

CallNumWorkerFolding ==
    /\ pc = "constructed"
    /\ run' = [run EXCEPT !.phase = "num_worker_folding",
                          !.locals = num_worker_folding_locals(run.verifier)]
    /\ pc' = "folding_loop"
    /\ UNCHANGED <<args, ret, serialVars>>

WorkerFoldingIteration ==
    /\ pc = "folding_loop" /\ worker_folding_condition(run.locals, run.verifier)
    /\ run' = [run EXCEPT !.locals = worker_folding_body(@, run.verifier)]
    /\ UNCHANGED <<pc, args, ret, serialVars>>

WorkerFoldingExit ==
    /\ pc = "folding_loop" /\ ~worker_folding_condition(run.locals, run.verifier)
    /\ ret' = Returned(run.locals.result)
    /\ pc' = "returned"
    /\ UNCHANGED <<run, args, serialVars>>

NextVerifierNew ==
    \/ CallFoldAndBatchVerifierNew \/ CallNumWorkerFolding
    \/ WorkerFoldingIteration \/ WorkerFoldingExit

\* a call that was made runs until it returns or aborts
SpecVerifierNew == InitVerifierNew /\ [][NextVerifierNew]_vars /\ WF_vars(NextVerifierNew)

verifier_constructed == pc \in {"constructed", "folding_loop", "returned"}

\* C28: every constructed FoldAndBatchVerifier has worker_degree_bound >=
\* master_degree_bound, construction aborting otherwise, hence
\* worker_domain_size >= master_domain_size; and num_worker_folding leaves
\* its loop and returns.
C28_WorkerBoundAtLeastMasterBound ==
    /\ [](verifier_constructed =>
             /\ run.verifier.worker_degree_bound >= run.verifier.master_degree_bound
             /\ run.verifier.worker_domain_size >= run.verifier.master_domain_size)
    /\ [](pc = "aborted" => args.worker_degree_bound < args.master_degree_bound)
    /\ [](verifier_constructed =>
             /\ run.verifier.worker_degree_bound = args.worker_degree_bound
             /\ run.verifier.master_degree_bound = args.master_degree_bound)
    /\ [][(pc = "folding_loop" /\ pc' = "folding_loop") =>
              run'.locals.current_domain_size < run.locals.current_domain_size]_vars
    /\ [](pc = "returned" => ret.value = num_worker_folding(run.verifier))
    /\ <>(pc \in {"returned", "aborted"})

\* worker bound 16, master bound 3, blowup 2, folding factor 2: two
\* foldings from 32 points to 8
C28_Witness ==
    /\ pc = "returned" /\ ret.value = 2
    /\ run.verifier.worker_degree_bound = 16 /\ run.verifier.master_degree_bound = 3
    /\ run.verifier.worker_domain_size = 32 /\ run.verifier.master_domain_size = 8
    /\ run.locals.current_domain_size = 8

(***************************************************************************)
(* The configurations FoldingOptions::new accepts, on SpecOptions.         *)
(***************************************************************************)
options_call_ended == pc # "new"

options_accepted == pc \in {"constructed", "loop", "returned"}

\* C29: FoldingOptions::new accepts exactly the configurations whose
\* blowup_factor is a power of two that is at least 2 and whose
\* folding_factor is 2, 4, 8 or 16, and aborts on every other one.
C29_AcceptsExactly ==
    options_call_ended =>
        (options_accepted <=>
            /\ is_power_of_two(args.blowup_factor) /\ args.blowup_factor >= 2
            /\ args.folding_factor \in {2, 4, 8, 16})

\* what the assertions do accept: every power of two, 1 included
AcceptsEveryPowerOfTwo ==
    options_call_ended =>
        /\ options_accepted <=>
              /\ args.blowup_factor \in {1, 2, 4}
              /\ args.folding_factor \in {2, 4, 8, 16}
        /\ (pc = "rejected") = ~options_accepted

\* a FoldingOptions with blowup_factor 1 is constructed
BlowupOneAccepted ==
    /\ pc = "constructed" /\ args.blowup_factor = 1 /\ ~ret.panic
    /\ ret.value.blowup_factor = 1

(***************************************************************************)
(* Specification of the foldings of the query positions by the master      *)
(* prover (prove_fold_and_batch, step 7), its loop taken one iteration at  *)
(* a time, next to the foldings the workers and the verifier count.        *)
(***************************************************************************)
\* the size at which the workers stop folding
max_last_eval_vector_size(options) ==
    next_power_of_two(options.last_poly_max_degree + 1) * options.blowup_factor

\* the master domain sizes handed to prove_fold_and_batch: the workers'
\* and the double of it where the worker domain allows
MasterDomainSizes(options) ==
    {d \in {max_last_eval_vector_size(options), 2 * max_last_eval_vector_size(options)} :
        d <= options.domain_size}

MasterFoldingPositions(options) == ProverPositions \cup {<<options.domain_size - 1>>}

\* step 7 before its loop
MasterFoldingRun(options, master_domain_size, seed, positions) ==
    [phase |-> "master_folding", options |-> options,
     worker_domain_size |-> options.domain_size,
     master_domain_size |-> master_domain_size,
     verifier |-> FoldAndBatchVerifier_new(RandomCoin_new, 1,
                      FriOptions(options.blowup_factor, options.folding_factor, 0),
                      options.domain_size \div options.blowup_factor,
                      master_domain_size \div options.blowup_factor).value,
     input |-> build_evaluations_from_random_poly(seed,
                   options.domain_size \div options.blowup_factor, options.blowup_factor),
     batched_evaluations |-> <<>>,
     query_positions |-> positions,
     current_domain_size |-> options.domain_size,
     foldings |-> 0]

InitMasterFolding ==
    /\ pc = "new"
    /\ \E params \in ProverParams, seed \in PolySeeds :
         LET options == FoldingOptions_new(params[1], params[2], params[3], params[4]).value
         IN  \E master_domain_size \in MasterDomainSizes(options),
                positions \in MasterFoldingPositions(options) :
                  run = MasterFoldingRun(options, master_domain_size, seed, positions)
    /\ args = [fn |-> "prove_fold_and_batch"] /\ ret = Returned(<<>>)
    /\ proof = NoProof /\ bytes = <<>> /\ parsed = NotRead /\ sized = NotSized

\* steps 1 to 3 for one worker: the batched vector is as long as the
\* vector the worker returns
WorkerCommits ==
    /\ pc = "new"
    /\ run' = [run EXCEPT !.batched_evaluations =
                  FoldingProver_build_layers(FoldingProver_new(run.options),
                      ProverChannel_new, run.input).value.last_eval_vector]
    /\ pc' = "step7"
    /\ UNCHANGED <<args, ret, serialVars>>

\* the loop of step 7 entered also at the master domain size
MasterFoldsAtEquality(current_domain_size, master_domain_size) ==
    current_domain_size >= master_domain_size

\* the condition of the loop of step 7
master_folds_again(current_domain_size, master_domain_size) ==
    current_domain_size > master_domain_size

MasterFoldsPositions ==
    /\ pc = "step7"
    /\ master_folds_again(run.current_domain_size, run.master_domain_size)
    /\ run' = [run EXCEPT
                  !.query_positions = fold_positions(@, run.current_domain_size,
                                                     run.options.folding_factor),
                  !.current_domain_size = @ \div run.options.folding_factor,
                  !.foldings = @ + 1]
    /\ UNCHANGED <<pc, args, ret, serialVars>>

MasterLeavesLoop ==
    /\ pc = "step7"
    /\ ~master_folds_again(run.current_domain_size, run.master_domain_size)
    /\ pc' = "step8"
    /\ UNCHANGED <<run, args, ret, serialVars>>

\* step 8: batched_evaluations[p] for every folded position p
MasterIndexesBatchedEvaluations ==
    /\ pc = "step8"
    /\ ret' = IF \E t \in 1..Len(run.query_positions) :
                     run.query_positions[t] >= Len(run.batched_evaluations)
              THEN Panicked
              ELSE Returned([t \in 1..Len(run.query_positions) |->
                                run.batched_evaluations[run.query_positions[t] + 1]])
    /\ pc' = "indexed"
    /\ UNCHANGED <<run, args, serialVars>>

NextMasterFolding ==
    \/ WorkerCommits \/ MasterFoldsPositions \/ MasterLeavesLoop
    \/ MasterIndexesBatchedEvaluations

SpecMasterFolding == InitMasterFolding /\ [][NextMasterFolding]_vars

\* master_domain_size = (last_poly_max_degree+1).next_power_of_two() * blowup
master_domain_is_workers_last ==
    run.master_domain_size = max_last_eval_vector_size(run.options)

\* C30: when the master domain size is (last_poly_max_degree + 1)
\* .next_power_of_two() * blowup, the master prover folds the query
\* positions as many times as num_worker_folding() says and as the workers
\* fold, num_fri_layers() - 1 times; every folded position is below the
\* length of the batched evaluation vector and indexing it does not abort.
C30_FoldingCountsAgree ==
    master_domain_is_workers_last =>
        /\ pc \in {"step8", "indexed"} =>
              /\ run.foldings = num_worker_folding(run.verifier)
              /\ run.foldings = num_fri_layers(run.options) - 1
              /\ \A t \in 1..Len(run.query_positions) :
                     run.query_positions[t] < Len(run.batched_evaluations)
              /\ Len(run.batched_evaluations) > 0
        /\ pc = "indexed" => ~ret.panic /\ Len(ret.value) = Len(run.query_positions)

\* domain 16 folded twice by 2 to the master domain 4: position 15 becomes 3
C30_Witness ==
    /\ pc = "indexed" /\ master_domain_is_workers_last /\ ~ret.panic
    /\ run.worker_domain_size = 16 /\ run.master_domain_size = 4
    /\ run.foldings = 2 /\ run.query_positions = <<3>>
    /\ Len(run.batched_evaluations) = 4

\* the loop of step 7 computes fold_to_domain
StepSevenIsFoldToDomain ==
    pc \in {"step8", "indexed"} =>
        \E positions \in MasterFoldingPositions(run.options) :
            run.query_positions =
                fold_to_domain(positions, run.worker_domain_size,
                               run.master_domain_size, run.options.folding_factor)

\* with a larger master domain the master folds less than the workers and
\* indexes past the end of the batched vector
FoldedPositionOutOfBounds ==
    /\ pc = "indexed" /\ ~master_domain_is_workers_last /\ ret.panic
    /\ run.foldings = num_worker_folding(run.verifier)
    /\ run.foldings < num_fri_layers(run.options) - 1

(***************************************************************************)
(* Specification of the positions at which the last layer of a worker is   *)
(* opened: the prover folds once per layer in FoldingProver::build_proof,  *)
(* the verifier num_worker_folding() times in verify_batched_fri and once  *)
(* more in verify_opening_proofs.                                          *)
(***************************************************************************)
LastLayerPositions(options) ==
    ProverPositions \cup {<<3, 4>>, <<options.domain_size - 1>>}

LastLayerRun(options, positions) ==
    [phase |-> "last_layer", options |-> options,
     verifier |-> FoldAndBatchVerifier_new(RandomCoin_new, 1,
                      FriOptions(options.blowup_factor, options.folding_factor, 0),
                      options.domain_size \div options.blowup_factor,
                      max_last_eval_vector_size(options) \div options.blowup_factor).value,
     positions |-> positions,
     prover |-> [positions |-> positions, domain_size |-> options.domain_size, i |-> 0],
     verification |-> [query_positions |-> positions,
                       current_domain_size |-> options.domain_size,
                       folded |-> 0, opened |-> FALSE, opening_positions |-> <<>>]]

InitLastLayer ==
    /\ pc = "query"
    /\ \E params \in ProverParams :
         LET options == FoldingOptions_new(params[1], params[2], params[3], params[4]).value
         IN  \E positions \in LastLayerPositions(options) :
                 run = LastLayerRun(options, positions)
    /\ args = [fn |-> "build_proof"] /\ ret = Returned(<<>>)
    /\ proof = NoProof /\ bytes = <<>> /\ parsed = NotRead /\ sized = NotSized

\* one iteration of the loop of FoldingProver::build_proof
ProverQueriesLayer ==
    /\ run.prover.i < num_fri_layers(run.options)
    /\ run' = [run EXCEPT !.prover =
                  [positions |-> fold_positions(run.prover.positions,
                                     run.prover.domain_size, run.options.folding_factor),
                   domain_size |-> run.prover.domain_size \div run.options.folding_factor,
                   i |-> run.prover.i + 1]]
    /\ UNCHANGED <<pc, args, ret, serialVars>>

\* one iteration of the folding loop of verify_batched_fri
VerifierFoldsPositions ==
    /\ run.verification.folded < num_worker_folding(run.verifier)
    /\ run' = [run EXCEPT !.verification =
                  [@ EXCEPT !.query_positions =
                                fold_positions(@, run.verification.current_domain_size,
                                               run.verifier.options.folding_factor),
                            !.current_domain_size = @ \div run.verifier.options.folding_factor,
                            !.folded = @ + 1]]
    /\ UNCHANGED <<pc, args, ret, serialVars>>

\* verify_opening_proofs folds from the master domain
VerifierOpensFunctionCommitments ==
    /\ run.verification.folded = num_worker_folding(run.verifier)
    /\ ~run.verification.opened
    /\ run' = [run EXCEPT !.verification =
                  [@ EXCEPT !.opened = TRUE,
                            !.opening_positions =
                                fold_positions(run.verification.query_positions,
                                               run.verifier.master_domain_size,
                                               run.verifier.options.folding_factor)]]
    /\ UNCHANGED <<pc, args, ret, serialVars>>

NextLastLayer ==
    \/ ProverQueriesLayer \/ VerifierFoldsPositions \/ VerifierOpensFunctionCommitments

SpecLastLayer == InitLastLayer /\ [][NextLastLayer]_vars

last_layer_queried ==
    /\ run.prover.i = num_fri_layers(run.options) /\ run.verification.opened

\* C31: the positions at which the prover opens the last layer of a worker
\* are, in content and order, the positions at which the verifier checks
\* that worker's function commitment.
C31_LastLayerPositionsAgree ==
    last_layer_queried =>
        run.prover.positions = run.verification.opening_positions

\* D_w / D_m is a power of the folding factor
ratio_is_power_of_factor(options) ==
    \E k \in 0..MaxK :
        options.domain_size = max_last_eval_vector_size(options) * IntPow(options.folding_factor, k)

\* the positions agree wherever the workers stop exactly at the master
\* domain
AgreeWhenWorkersStopAtMasterDomain ==
    (last_layer_queried /\ ratio_is_power_of_factor(run.options)) =>
        /\ run.prover.positions = run.verification.opening_positions
        /\ run.prover.positions =
               fold_times(run.positions, run.options.domain_size,
                          run.options.folding_factor, num_fri_layers(run.options))

\* domain 16 folded by 4 with master domain 8: the prover opens the last
\* layer at 0, the verifier checks it at 1
LastLayerPositionsDiffer ==
    /\ last_layer_queried
    /\ run.options.domain_size = 16 /\ run.options.folding_factor = 4
    /\ run.verifier.master_domain_size = 8
    /\ run.positions = <<1, 5>>
    /\ run.prover.positions = <<0>> /\ run.verification.opening_positions = <<1>>

\* an unsorted list on both sides: 3, 4 folded to 3, 0
LastLayerOrderKept ==
    /\ last_layer_queried /\ run.positions = <<3, 4>>
    /\ run.options.domain_size = 8 /\ run.options.folding_factor = 2
    /\ run.prover.positions = run.verification.opening_positions
    /\ Len(run.prover.positions) = 2

(***************************************************************************)
(* Specification of FoldingProver::build_layers with build_layer taken in  *)
(* two steps: the commitment pushed to the channel, then the alpha drawn   *)
(* and the projection applied.                                             *)
(***************************************************************************)
\* the channels build_layers is handed: a new one, and one that has
\* absorbed a function commitment before
BuildLayersChannels == {ProverChannel_new, push_function_commitment(ProverChannel_new, 7)}

InitBuildLayers ==
    /\ pc = "new"
    /\ \E params \in ProverParams, seed \in PolySeeds, channel \in BuildLayersChannels :
           run = [phase |-> "build_layers",
                  prover |-> FoldingProver_new(
                      FoldingOptions_new(params[1], params[2], params[3], params[4]).value),
                  input |-> build_evaluations_from_random_poly(seed,
                                params[3] \div params[1], params[1]),
                  channel |-> channel,
                  building |-> Building(<<>>, channel, <<>>),
                  i |-> 0,
                  vector_commitment |-> build_layer_commitment(<<>>),
                  projected |-> <<>>]
    /\ args = [fn |-> "build_layers"] /\ ret = Returned(<<>>)
    /\ proof = NoProof /\ bytes = <<>> /\ parsed = NotRead /\ sized = NotSized

EntersBuildLayers ==
    /\ pc = "new" /\ Len(run.prover.layers) = 0
    /\ run' = [run EXCEPT !.building = Building(<<>>, run.channel, run.input)]
    /\ pc' = "commit"
    /\ UNCHANGED <<args, ret, serialVars>>

\* build_layer up to channel.commit_fri_layer
CommitsLayer ==
    /\ pc = "commit" /\ run.i < num_fri_layers(run.prover.options)
    /\ run' = [run EXCEPT
                  !.building =
                      [record_last_eval_vector(@, run.i, num_fri_layers(run.prover.options))
                          EXCEPT !.channel =
                              commit_fri_layer(@,
                                  build_layer_commitment(
                                      transpose_slice(run.building.evaluations,
                                          run.prover.options.folding_factor)).commitment)],
                  !.vector_commitment =
                      build_layer_commitment(
                          transpose_slice(run.building.evaluations,
                                          run.prover.options.folding_factor))]
    /\ pc' = "draw"
    /\ UNCHANGED <<args, ret, serialVars>>

\* build_layer from channel.draw_fri_alpha on
DrawsAlphaAndProjects ==
    /\ pc = "draw"
    /\ run' = [run EXCEPT
                  !.building =
                      layer_built(@, run.prover.options.folding_factor,
                                  run.vector_commitment, run.building.channel),
                  !.i = @ + 1,
                  !.projected = Append(@, [from |-> run.building.evaluations,
                                           alpha |-> draw_fri_alpha(run.building.channel)])]
    /\ pc' = "commit"
    /\ UNCHANGED <<args, ret, serialVars>>

LeavesBuildLayers ==
    /\ pc = "commit" /\ run.i >= num_fri_layers(run.prover.options)
    /\ ret' = Returned(run.building.last_eval_vector)
    /\ run' = [run EXCEPT !.prover.layers = run.building.layers]
    /\ pc' = "returned"
    /\ UNCHANGED <<args, serialVars>>

NextBuildLayers ==
    \/ EntersBuildLayers \/ CommitsLayer \/ DrawsAlphaAndProjects \/ LeavesBuildLayers

SpecBuildLayers == InitBuildLayers /\ [][NextBuildLayers]_vars

\* what build_layers has appended to the transcript of the channel
transcript_of_build_layers ==
    SubSeq(run.building.channel.public_coin.log,
           Len(run.channel.public_coin.log) + 1,
           Len(run.building.channel.public_coin.log))

\* the layer commitments build_layers has pushed
pushed_layer_commitments ==
    SubSeq(run.building.channel.layer_commitments,
           Len(run.channel.layer_commitments) + 1,
           Len(run.building.channel.layer_commitments))

commit_then_draw(log) ==
    \A k \in 1..Len(log) : log[k].op = IF k % 2 = 1 THEN "reseed" ELSE "draw"

\* C32: build_layers pushes exactly num_fri_layers() commitments and draws
\* exactly as many alphas, alternating commit then draw; the alpha that
\* projects layer l is drawn after the commitment of layer l was absorbed,
\* and layer l+1 is committed after the alpha of layer l was drawn.
C32_CommitThenDraw ==
    pc \in {"commit", "draw", "returned"} =>
        /\ commit_then_draw(transcript_of_build_layers)
        /\ Len(pushed_layer_commitments) = run.i + (IF pc = "draw" THEN 1 ELSE 0)
        /\ Len(transcript_of_build_layers) = 2 * run.i + (IF pc = "draw" THEN 1 ELSE 0)
        /\ Len(run.projected) = run.i
        /\ \A l \in 1..Len(pushed_layer_commitments) :
               transcript_of_build_layers[2 * l - 1].v = pushed_layer_commitments[l]
        /\ \A l \in 1..run.i :
               /\ transcript_of_build_layers[2 * l].v = run.projected[l].alpha
               /\ pushed_layer_commitments[l] =
                      build_layer_commitment(
                          transpose_slice(run.projected[l].from,
                                          run.prover.options.folding_factor)).commitment
               /\ (IF l < run.i THEN run.projected[l + 1].from
                   ELSE run.building.evaluations) =
                      apply_drp(run.projected[l].from, GENERATOR, run.projected[l].alpha,
                                run.prover.options.folding_factor)
        /\ pc = "returned" =>
              /\ run.i = num_fri_layers(run.prover.options)
              /\ Len(pushed_layer_commitments) = num_fri_layers(run.prover.options)
              /\ Len(run.prover.layers) = num_fri_layers(run.prover.options)

\* three layers of a domain of 16 points on a channel that had absorbed a
\* function commitment: reseed, draw, reseed, draw, reseed, draw
C32_Witness ==
    /\ pc = "returned" /\ run.i = 3 /\ Len(run.channel.public_coin.log) = 1
    /\ Len(transcript_of_build_layers) = 6
    /\ Len(pushed_layer_commitments) = 3
    /\ Len(ret.value) = 4

\* the two steps together are build_layers
StepsAreBuildLayers ==
    pc = "returned" =>
        /\ run.building =
               FoldingProver_build_layers(FoldingProver_new(run.prover.options),
                                          run.channel, run.input).value
        /\ ret.value = run.building.last_eval_vector

(***************************************************************************)
(* Specification of the folding challenges of the workers: each worker     *)
(* commits on its own channel, the verifier creates one FoldingVerifier    *)
(* per worker, and the master transcript grows in between.                 *)
(***************************************************************************)
\* the digests the master transcript absorbs
MasterDigests == {3, 5}

\* the values drawn, in order, in the transcript of a coin
RECURSIVE drawn_values(_)
drawn_values(log) ==
    IF Len(log) = 0 THEN <<>>
    ELSE IF log[1].op = "draw" THEN <<log[1].v>> \o drawn_values(Tail(log))
    ELSE drawn_values(Tail(log))

WorkerChallengesOf(committed, layer_commitments, folding_proof, prover_alphas, prepared, verifier_alphas) ==
    [committed |-> committed, layer_commitments |-> layer_commitments,
     folding_proof |-> folding_proof, prover_alphas |-> prover_alphas,
     prepared |-> prepared, verifier_alphas |-> verifier_alphas]

InitWorkerChallenges ==
    /\ pc = "workers"
    /\ \E setup \in WorkerSetups :
           \E inputs \in InputsOf(setup.worker_degree_bound, setup.lde_blowup) :
               run = [setup |-> setup, inputs |-> inputs,
                      verifier |-> FoldAndBatchVerifier_new(RandomCoin_new,
                                       setup.num_queries, setup.master_options,
                                       setup.worker_degree_bound,
                                       setup.master_degree_bound).value,
                      worker |-> [w \in 1..Len(inputs) |->
                                     WorkerChallengesOf(FALSE, <<>>, FoldingProof(<<>>),
                                                        <<>>, FALSE, <<>>)]]
    /\ args = [fn |-> "none"] /\ ret = Returned(<<>>)
    /\ proof = NoProof /\ bytes = <<>> /\ parsed = NotRead /\ sized = NotSized

\* the layers of a worker on a channel of its own, and its folding proof
worker_commitment(setup, input) ==
    FoldingProver_build_layers(FoldingProver_new(worker_options(setup)),
                               ProverChannel_new, input).value

worker_folding_proof(setup, input, layers) ==
    FoldingProver_build_proof([options |-> worker_options(setup), layers |-> layers],
                              input, <<1, 5>>).value.folding_proof

WorkerCommitsAndProves(w) ==
    /\ ~run.worker[w].committed
    /\ run' = [run EXCEPT !.worker[w] =
                  WorkerChallengesOf(TRUE,
                      worker_commitment(run.setup, run.inputs[w]).channel.layer_commitments,
                      worker_folding_proof(run.setup, run.inputs[w],
                          worker_commitment(run.setup, run.inputs[w]).layers),
                      drawn_values(
                          worker_commitment(run.setup, run.inputs[w]).channel.public_coin.log),
                      FALSE, <<>>)]
    /\ UNCHANGED <<pc, pureVars, serialVars>>

\* the public coin of the verifier absorbs a digest of the master transcript
MasterTranscriptAbsorbs(d) ==
    /\ Len(run.verifier.public_coin.log) < 2
    /\ run' = [run EXCEPT !.verifier.public_coin = reseed(@, d)]
    /\ UNCHANGED <<pc, pureVars, serialVars>>

\* the coin of the FoldingVerifier of a worker taken from the verifier
FoldingVerifierCoinShared(verifier) == verifier.public_coin

\* the coin of the FoldingVerifier of a worker: RandomCoin::new(&[])
folding_verifier_coin(verifier) == RandomCoin_new

\* verify_fold_and_batch, step 1, for one worker
folding_verifier_of(verifier, folding_proof, layer_commitments) ==
    FoldingVerifier_new(
        FoldingVerifierChannel_new(folding_proof, layer_commitments,
            verifier.worker_domain_size, verifier.options.folding_factor).val,
        folding_verifier_coin(verifier), folding_verifier_options(verifier).value,
        verifier.worker_degree_bound - 1)

VerifierPreparesFoldingVerifier(w) ==
    /\ run.worker[w].committed /\ ~run.worker[w].prepared
    /\ folding_verifier_of(run.verifier, run.worker[w].folding_proof,
                           run.worker[w].layer_commitments).err = "none"
    /\ run' = [run EXCEPT
                  !.worker[w].prepared = TRUE,
                  !.worker[w].verifier_alphas =
                      folding_verifier_of(run.verifier, run.worker[w].folding_proof,
                                          run.worker[w].layer_commitments).layer_alphas]
    /\ UNCHANGED <<pc, pureVars, serialVars>>

NextWorkerChallenges ==
    \/ \E w \in 1..Len(run.inputs) :
           WorkerCommitsAndProves(w) \/ VerifierPreparesFoldingVerifier(w)
    \/ \E d \in MasterDigests : MasterTranscriptAbsorbs(d)

SpecWorkerChallenges == InitWorkerChallenges /\ [][NextWorkerChallenges]_vars

\* the challenges of a coin with the empty seed that absorbs the layer
\* commitments of one input and nothing else
challenges_of_input(setup, input) ==
    replay_layer_commitments(Replay(RandomCoin_new, <<>>),
        committed_alone(setup, input).channel.layer_commitments, 1).layer_alphas

\* C33: the folding challenges of worker i come from a coin with the empty
\* seed that absorbs only the layer commitments of worker i, on the prover
\* side and on the verifier side: both sides agree, whatever the master
\* transcript and the other workers' inputs are.
C33_WorkerChallengesIndependent ==
    \A w \in 1..Len(run.inputs) :
        /\ run.worker[w].committed =>
              /\ run.worker[w].prover_alphas = challenges_of_input(run.setup, run.inputs[w])
              /\ Len(run.worker[w].prover_alphas) = Len(run.worker[w].layer_commitments)
        /\ run.worker[w].prepared =>
              run.worker[w].verifier_alphas = run.worker[w].prover_alphas

\* two workers with different inputs, two layers each, prepared after the
\* master transcript absorbed two digests
C33_Witness ==
    /\ Len(run.inputs) = 2 /\ run.inputs[1] # run.inputs[2]
    /\ Len(run.verifier.public_coin.log) = 2
    /\ \A w \in 1..2 :
           /\ run.worker[w].prepared /\ Len(run.worker[w].verifier_alphas) = 2
    /\ run.worker[1].verifier_alphas # run.worker[2].verifier_alphas

(***************************************************************************)
(* The BatchedFriProof that build_proof returns, on SpecBatchedFri.        *)
(***************************************************************************)
batched_proof_built == pc \in {"batched_built", "batched_verified"}

\* batching proof i opens the commitment to inputs[i] at the folded positions
batching_proof_opens(i, folded_positions, N) ==
    /\ layer_parse_ok(run.batched_proof.batching_proofs[i], N)
    /\ parsed_values(run.batched_proof.batching_proofs[i], N).val =
           opened_rows(run.inputs[i], folded_positions, N)
    /\ run.batched_proof.function_commitments[i] =
           build_layer_commitment(transpose_slice(run.inputs[i], N)).commitment
    /\ verify_many(run.batched_proof.function_commitments[i], folded_positions,
                   hashed_rows(parsed_values(run.batched_proof.batching_proofs[i], N).val, N),
                   parsed_opening(run.batched_proof.batching_proofs[i]).val)

\* C34: the proof of build_proof on m inputs has m function commitments and
\* m batching proofs, batching proof i opens function commitment i, the
\* commitment to inputs[i], at fold_positions(query_positions, D, N), and
\* there is one batched evaluation per query position, the value of the
\* batched vector there.
C34_BatchingProofsOpenInputs ==
    batched_proof_built =>
        /\ Len(run.batched_proof.function_commitments) = Len(run.inputs)
        /\ Len(run.batched_proof.batching_proofs) = Len(run.inputs)
        /\ \A i \in 1..Len(run.inputs) :
               batching_proof_opens(i,
                   fold_positions(run.query_positions, run.setup.domain_size,
                                  run.setup.options.folding_factor),
                   run.setup.options.folding_factor)
        /\ parse_elements(run.batched_proof.evaluations).ok
        /\ Len(parse_elements(run.batched_proof.evaluations).val) = Len(run.query_positions)
        /\ \A t \in 1..Len(run.query_positions) :
               parse_elements(run.batched_proof.evaluations).val[t] =
                   combine_poly_evaluations(run.inputs, run.challenge).value[run.query_positions[t] + 1]

\* two different inputs and two different query positions
C34_Witness ==
    /\ pc = "batched_built" /\ Len(run.inputs) = 2 /\ run.inputs[1] # run.inputs[2]
    /\ Len(run.query_positions) = 2
    /\ run.batched_proof.function_commitments[1] # run.batched_proof.function_commitments[2]
    /\ run.batched_proof.batching_proofs[1] # run.batched_proof.batching_proofs[2]

(***************************************************************************)
(* Specification of a function layer and its queries: build_function_layer *)
(* on an evaluation vector, then query_layer at a list of positions.       *)
(***************************************************************************)
\* the vector of test_extract_evaluations, a longer one and one of squares
LayerVectors ==
    {<<8, 7, 6, 5, 4, 3, 2, 1>>,
     [i \in 1..16 |-> 17 - i],
     [i \in 1..16 |-> (i * i + 100) % Modulus]}

LayerFoldingFactors == {2, 4, 8}

LayerPositions == ProverPositions \cup {<<0, 2, 4, 5, 6>>, <<3, 4>>}

InitQueryLayer ==
    /\ pc = "new"
    /\ \E v \in LayerVectors, N \in LayerFoldingFactors, positions \in LayerPositions :
           args = [fn |-> "query_layer", evaluations |-> v, folding_factor |-> N,
                   positions |-> positions, domain_size |-> Len(v)]
    /\ run = [phase |-> "query_layer",
              prover |-> BatchedFriProver_new(FriOptions(2, 2, 0))]
    /\ ret = Returned(<<>>)
    /\ proof = NoProof /\ bytes = <<>> /\ parsed = NotRead /\ sized = NotSized

CallBuildFunctionLayer ==
    /\ pc = "new"
    /\ run' = [run EXCEPT !.prover =
                  build_function_layer(@, args.evaluations, args.folding_factor)]
    /\ pc' = "layer_built"
    /\ UNCHANGED <<args, ret, serialVars>>

CallQueryLayer ==
    /\ pc = "layer_built"
    /\ ret' = Returned(query_layer(run.prover.function_layers[1], args.positions,
                                   args.domain_size, args.folding_factor))
    /\ pc' = "queried"
    /\ UNCHANGED <<args, run, serialVars>>

NextQueryLayer == CallBuildFunctionLayer \/ CallQueryLayer

SpecQueryLayer == InitQueryLayer /\ [][NextQueryLayer]_vars

\* entry j (from 0) of the row returned for the t-th folded position
returned_row_entry(t, j) ==
    parsed_values(ret.value, args.folding_factor).val[(t - 1) * args.folding_factor + j + 1]

\* C35: the stored layer of a vector v of length D with folding factor N
\* satisfies flatten(transpose(v))[k*N + j] = v[k + j*D/N], and the row
\* query_layer returns for folded position k is (v[k], v[k + D/N], ...,
\* v[k + (N-1)D/N]), the rows in the order of the folded positions.
C35_RowsOfTransposedLayer ==
    LET v == args.evaluations
        N == args.folding_factor
        D == args.domain_size
        folded == fold_positions(args.positions, D, N)
    IN  /\ pc \in {"layer_built", "queried"} =>
              /\ Len(run.prover.function_layers[1].evaluations) = D
              /\ \A k \in 0..((D \div N) - 1), j \in 0..(N - 1) :
                     run.prover.function_layers[1].evaluations[k * N + j + 1] =
                         v[k + j * (D \div N) + 1]
        /\ pc = "queried" =>
              /\ parsed_values(ret.value, N).ok
              /\ Len(parsed_values(ret.value, N).val) = N * Len(folded)
              /\ \A t \in 1..Len(folded), j \in 0..(N - 1) :
                     returned_row_entry(t, j) = v[folded[t] + j * (D \div N) + 1]

\* the case of test_extract_evaluations: positions 0, 2, 4, 5, 6 of
\* 8, 7, ..., 1 fold to 0, 2, 1 and the rows are 8 4, 6 2, 7 3
C35_Witness ==
    /\ pc = "queried" /\ args.evaluations = <<8, 7, 6, 5, 4, 3, 2, 1>>
    /\ args.folding_factor = 2 /\ args.positions = <<0, 2, 4, 5, 6>>
    /\ run.prover.function_layers[1].evaluations = <<8, 4, 7, 3, 6, 2, 5, 1>>
    /\ parsed_values(ret.value, 2).val = <<8, 4, 6, 2, 7, 3>>

(***************************************************************************)
(* The prover state around build_proof, on SpecFoldingProver.              *)
(***************************************************************************)
\* the proof of a prover that built its layers once on the input
proof_after_one_build_layers ==
    FoldingProver_build_proof(
        [options |-> run.prover.options,
         layers |-> FoldingProver_build_layers(FoldingProver_new(run.prover.options),
                                               ProverChannel_new, run.input).value.layers],
        run.input, run.positions)

\* C36: build_proof leaves the stored layers as they were, so repeated
\* build_proof calls with the same input and positions return the same
\* folding proof and evaluation vector, and build_layers still aborts
\* after build_proof.
C36_BuildProofKeepsState ==
    /\ [][pc' = "build_proof" => run'.prover.layers = run.prover.layers]_vars
    /\ [][(pc = "build_proof" /\ pc' = "build_proof") => ret' = ret]_vars
    /\ [](pc = "build_proof" /\ ~ret.panic => ret = proof_after_one_build_layers)
    /\ [][(pc = "build_proof" /\ ~ret.panic /\ pc' = "build_layers") =>
              (ret'.panic /\ run'.prover = run.prover)]_vars

\* the second of two build_proof calls after build_layers, on a prover of
\* two layers
C36_Witness ==
    /\ pc = "build_proof" /\ run.calls = <<"build_layers", "build_proof", "build_proof">>
    /\ ~ret.panic /\ Len(run.prover.layers) = 2
    /\ Len(ret.value.folding_proof.folding_proof) = 2
    /\ Len(ret.value.evaluation_vector) = Len(run.positions)

(***************************************************************************)
(* build_proof on a prover without layers, on SpecFoldingProver.           *)
(***************************************************************************)
build_layers_has_run == \E k \in 1..Len(run.calls) : run.calls[k] = "build_layers"

\* C37: build_proof on a prover whose build_layers has not run, so that no
\* layers are stored, aborts and returns no FoldingProof.
C37_BuildProofNeedsLayers ==
    pc = "build_proof" =>
        /\ ~build_layers_has_run => (ret.panic /\ Len(run.prover.layers) = 0)
        /\ build_layers_has_run => (~ret.panic /\ Len(ret.value.folding_proof.folding_proof) > 0)

\* build_proof as the first call on a new prover, and again
C37_Witness ==
    /\ pc = "build_proof" /\ run.calls = <<"build_proof", "build_proof">>
    /\ ret.panic /\ Len(run.prover.layers) = 0

(***************************************************************************)
(* Specification of BatchedFriProver::build_proof on any number of inputs, *)
(* none included: the function layers, the batching, then the rest.        *)
(***************************************************************************)
InitAnyInputs ==
    /\ pc = "function_layers"
    /\ \E setup \in BatchedSetups :
           \E inputs \in {<<>>} \cup InputsOf(setup.degree_bound, setup.options.blowup_factor) :
               run = BatchedFriRun(setup, inputs)
    /\ args = [fn |-> "build_proof"] /\ ret = Returned(<<>>)
    /\ proof = NoProof /\ bytes = <<>> /\ parsed = NotRead /\ sized = NotSized

\* step 1: one function layer per input
BuildsFunctionLayers ==
    /\ pc = "function_layers"
    /\ run' = function_layers_built(run)
    /\ pc' = "batch"
    /\ UNCHANGED <<args, ret, serialVars>>

\* step 2: the challenge is drawn and combine_poly_evaluations is called
BatchesInputs ==
    /\ pc = "batch"
    /\ IF combine_poly_evaluations(run.inputs,
              draw_batched_fri_challange(run.master_prover.channel)).panic
       THEN /\ run' = [run EXCEPT !.master_prover.channel = channel_after_draw(@)]
            /\ ret' = Panicked
            /\ pc' = "aborted"
       ELSE /\ run' = challenge_drawn(run, run.inputs)
            /\ ret' = ret
            /\ pc' = "build_layers"
    /\ UNCHANGED <<args, serialVars>>

\* steps 3 to 5
BuildsProof ==
    /\ pc = "build_layers"
    /\ run' = [build_proof_from(run).locals EXCEPT
                  !.batched_proof = IF build_proof_from(run).returned.panic THEN @
                                    ELSE build_proof_from(run).returned.value]
    /\ ret' = build_proof_from(run).returned
    /\ pc' = IF build_proof_from(run).returned.panic THEN "aborted" ELSE "returned"
    /\ UNCHANGED <<args, serialVars>>

NextAnyInputs == BuildsFunctionLayers \/ BatchesInputs \/ BuildsProof

SpecAnyInputs == InitAnyInputs /\ [][NextAnyInputs]_vars

\* C38: combine_poly_evaluations on an empty collection of evaluation
\* vectors aborts instead of returning a vector, and build_proof on an empty
\* input set aborts without a proof.
C38_EmptyInputsAbort ==
    /\ \A challenge \in Challenges : combine_poly_evaluations(<<>>, challenge).panic
    /\ Len(run.inputs) = 0 =>
          /\ pc \in {"function_layers", "batch", "aborted"}
          /\ run.batched_proof = NoBatchedFriProof
          /\ pc = "aborted" => ret.panic
    /\ pc = "aborted" => Len(run.inputs) = 0
    /\ pc = "returned" => (~ret.panic /\ ret.value = run.batched_proof /\ Len(run.inputs) > 0)

\* build_proof on no input has aborted in step 2, after the challenge was
\* drawn from a channel without function commitments
C38_Witness ==
    /\ pc = "aborted" /\ ret.panic /\ Len(run.inputs) = 0
    /\ Len(run.master_prover.function_layers) = 0
    /\ Len(run.master_prover.channel.function_commitments) = 0
    /\ Len(run.master_prover.channel.public_coin.log) = 1

=============================================================================
